---- MODULE Spec2Model ----
(***************************************************************************)
(* Campus Smart Guide: the retrieval-augmented chat pipelines.             *)
(*                                                                         *)
(*   ai-model/main.py          topic guard, Ollama-backed SSE chat stream  *)
(*   backend/main.py, agents.py, database.py                               *)
(*                             layered Researcher/Analyst/Finalizer stream *)
(*   ai-model/app/gemini_client.py                                         *)
(*                             Gemini generation with model fallback       *)
(*                                                                         *)
(* Text is a sequence of one-character strings, so that lower(), strip(),  *)
(* split() and the substring test act on characters as they do in Python.  *)
(***************************************************************************)
EXTENDS Integers, Sequences, FiniteSets, TLC

VARIABLES
    \* the topic guard applied on its own
    gQuery,           \* the query handed to is_bits_related
    gPc,              \* "idle" | "ready" | "checked"
    gResult,          \* the value is_bits_related returned
    \* one chat request and its response stream
    service,          \* "ai-model" | "backend": the application that serves it
    req,              \* the request body
    pc,               \* where the handler or its response generator stands
    httpStatus,       \* 0 until the handler answers; then 200, 400 or 500
    events,           \* the server-sent events put on the transport, in order
    retrievalCalls,   \* ai-model: calls of rag_service.build_context
    generationCalls,  \* requests sent to the generation provider
    synthFailed,      \* the generation provider failed during this request
    sources_payload,  \* ai-model: chat_stream's sources_payload
    system_prompt,    \* ai-model: "base" (SYSTEM_PROMPT) | "rag"
    oosIdx,           \* ai-model: oos_stream's position in the word list
    linesRead,        \* lines read from the provider's streamed response
    \* backend: the layered pipeline behind POST /chat
    env,              \* which credentials the process environment holds
    vec,              \* the vector_search task of search_all's gather
    sql,              \* the sql_structured_search task of search_all's gather
    kwd,              \* the keyword_search call of search_all
    ctx,              \* the AgentContext of the query
    analyst,          \* how AnalystAgent.run ended: "idle" | "skipped" | "replied" | "failed"
    \* GeminiClient: one streaming call, then one synchronous call
    gmKey,            \* whether self.api_key is set
    gmScript,         \* what each model of GENERATION_MODELS answers
    gs,               \* the chat_stream call
    gc,               \* the chat call
    \* VectorStore: the index and the operations applied to it
    vsDocs,           \* self._docs, in the order of the dict
    vsOp,             \* the last operation, its arguments and its outcome
    vsInserted,       \* the ids in the order they were inserted: an overwrite
                      \* is no insertion, a re-add after a delete is one
    vsReload,         \* a search, then clear(), re-adding the chunks, the search again
    \* DocumentProcessor: its construction, then process called twice on
    \* one document
    ckContent,        \* the content handed to process
    ckMetadata,       \* the metadata handed to process
    ckSize,           \* self.chunk_size
    ckOverlap,        \* self.chunk_overlap
    ckPc,             \* "idle" | "new" | "built" | "done" | "again"
    ckDocs,           \* the chunk dicts process returned
    ckPrev,           \* the chunk dicts the call before returned
    \* ai-model: one request to POST /api/chat/sync
    syReq,            \* the request body
    syPc,             \* where chat_sync stands
    syStatus,         \* 0 until the handler answers; then 200, 400 or 500
    syBody,           \* <<the response object>>, <<>> without one
    sySources,        \* chat_sync's sources_payload
    syPrompt,         \* "base" (SYSTEM_PROMPT) | "rag"
    \* RAGService: one call of initialize and one query that runs beside it
    ixDocuments,      \* the documents handed to initialize
    ixPc,             \* "idle" | "embedding" | "returned"
    ixChunks,         \* what doc_processor.process returns for each document
    ixAt,             \* the chunk whose embedding initialize awaits
    ixTotal,          \* initialize's total
    ixLog,            \* the chunks handled so far and what became of each
    qPc,              \* "idle" | "embedding" | "answered" | "failed" | "search_failed"
    qSeen,            \* the index as the query's search found it
    qSources,         \* the sources build_context returned
    qPrompt,          \* the system prompt chosen: "base" | "rag"
    \* ai-model: the lifespan at startup and one request to GET /api/health
    stPc,             \* "off" | "start" | "loading" | "serving" | "crashed"
    stHealthy,        \* what health_check returned to lifespan
    hPc,              \* "idle" | "models" | "responded"
    hOk,              \* health's ollama_ok
    hResp,            \* <<the HealthResponse>>, <<>> without one
    \* RAGService: one call of add_document
    adPc,             \* "idle" | "embedding" | "returned" | "raised"
    adChunks,         \* what doc_processor.process returned for the document
    adAt,             \* the chunk whose embedding add_document awaits
    adEmb             \* the embeddings add_document was given, chunk by chunk

guardVars == <<gQuery, gPc, gResult>>

chatVars == <<service, req, pc, httpStatus, events, retrievalCalls,
              generationCalls, synthFailed, sources_payload, system_prompt,
              oosIdx, linesRead>>

beVars == <<env, vec, sql, kwd, ctx, analyst>>

gemVars == <<gmKey, gmScript, gs, gc>>

storeVars == <<vsDocs, vsOp, vsInserted, vsReload>>

chunkVars == <<ckContent, ckMetadata, ckSize, ckOverlap, ckPc, ckDocs, ckPrev>>

syncVars == <<syReq, syPc, syStatus, syBody, sySources, syPrompt>>

indexVars == <<ixDocuments, ixPc, ixChunks, ixAt, ixTotal, ixLog, qPc, qSeen, qSources, qPrompt>>

startVars == <<stPc, stHealthy, hPc, hOk, hResp>>

addVars == <<adPc, adChunks, adAt, adEmb>>

vars == <<guardVars, chatVars, beVars, gemVars, storeVars, chunkVars, syncVars,
          indexVars, startVars, addVars>>

----------------------------------------------------------------------------
(* Python string primitives                                                *)

Whitespace == {" ", "\n", "\t"}

IsSpace(c) == c \in Whitespace

UpperCase == <<"A","B","C","D","E","F","G","H","I","J","K","L","M",
               "N","O","P","Q","R","S","T","U","V","W","X","Y","Z">>

LowerCase == <<"a","b","c","d","e","f","g","h","i","j","k","l","m",
               "n","o","p","q","r","s","t","u","v","w","x","y","z">>

LowerChar(c) ==
    IF \E i \in 1..Len(UpperCase) : UpperCase[i] = c
    THEN LowerCase[CHOOSE i \in 1..Len(UpperCase) : UpperCase[i] = c]
    ELSE c

\* str.lower()
Lower(s) == [i \in 1..Len(s) |-> LowerChar(s[i])]

\* str.strip(): leading and trailing whitespace removed
Strip(s) ==
    IF \A i \in 1..Len(s) : IsSpace(s[i]) THEN <<>>
    ELSE LET lead == CHOOSE k \in 0..(Len(s) - 1) :
                         /\ ~IsSpace(s[k + 1])
                         /\ \A j \in 1..k : IsSpace(s[j])
             trail == CHOOSE k \in 0..(Len(s) - 1) :
                          /\ ~IsSpace(s[Len(s) - k])
                          /\ \A j \in (Len(s) - k + 1)..Len(s) : IsSpace(s[j])
         IN  SubSeq(s, lead + 1, Len(s) - trail)

RECURSIVE SplitWsFrom(_, _, _, _)
SplitWsFrom(s, i, cur, acc) ==
    IF i > Len(s)
    THEN IF cur = <<>> THEN acc ELSE Append(acc, cur)
    ELSE IF IsSpace(s[i])
         THEN SplitWsFrom(s, i + 1, <<>>, IF cur = <<>> THEN acc ELSE Append(acc, cur))
         ELSE SplitWsFrom(s, i + 1, Append(cur, s[i]), acc)

\* str.split(): the maximal runs of non-whitespace characters
SplitWs(s) == SplitWsFrom(s, 1, <<>>, <<>>)

\* str.split(c) for a one-character separator: the pieces between the
\* occurrences of c, empty pieces kept
SplitOn(s, c) ==
    LET at == {i \in 1..Len(s) : s[i] = c}
        n == Cardinality(at)
        nth(k) == CHOOSE i \in at : Cardinality({j \in at : j < i}) = k - 1
        first(k) == IF k = 1 THEN 1 ELSE nth(k - 1) + 1
        last(k) == IF k = n + 1 THEN Len(s) ELSE nth(k) - 1
    IN  [k \in 1..(n + 1) |-> SubSeq(s, first(k), last(k))]

\* kw in q
Contains(kw, q) ==
    \E i \in 1..(Len(q) - Len(kw) + 1) :
        \A j \in 1..Len(kw) : q[i + j - 1] = kw[j]

RECURSIVE Concat(_)
\* "".join(parts)
Concat(parts) ==
    IF parts = <<>> THEN <<>> ELSE Head(parts) \o Concat(Tail(parts))

RECURSIVE JoinWith(_, _)
\* sep.join(parts)
JoinWith(parts, sep) ==
    IF parts = <<>> THEN <<>>
    ELSE IF Len(parts) = 1 THEN Head(parts)
    ELSE Head(parts) \o sep \o JoinWith(Tail(parts), sep)

----------------------------------------------------------------------------
(* ai-model/main.py: the topic guard                                       *)

BITS_KEYWORDS ==
    {
      <<"b","i","t","s">>,
      <<"p","i","l","a","n","i">>,
      <<"g","o","a">>,
      <<"c","a","m","p","u","s">>,
      <<"c","o","l","l","e","g","e">>,
      <<"u","n","i","v","e","r","s","i","t","y">>,
      <<"i","n","s","t","i","t","u","t","e">>,
      <<"b","i","r","l","a">>,
      <<"h","y","d","e","r","a","b","a","d">>,
      <<"d","u","b","a","i">>,
      <<"c","s","i","s">>,
      <<"c","s">>,
      <<"e","c","e">>,
      <<"e","e","e">>,
      <<"m","e","c","h">>,
      <<"c","i","v","i","l">>,
      <<"p","h","a","r","m","a">>,
      <<"b","i","o">>,
      <<"c","o","m","p","u","t","e","r">>,
      <<"s","c","i","e","n","c","e">>,
      <<"e","n","g","i","n","e","e","r","i","n","g">>,
      <<"i","n","f","o","r","m","a","t","i","o","n">>,
      <<"s","y","s","t","e","m","s">>,
      <<"d","e","p","a","r","t","m","e","n","t">>,
      <<"f","a","c","u","l","t","y">>,
      <<"p","r","o","f","e","s","s","o","r">>,
      <<"p","h","d">>,
      <<"m","t","e","c","h">>,
      <<"b","t","e","c","h">>,
      <<"m","s","c">>,
      <<"r","e","s","e","a","r","c","h">>,
      <<"l","a","b">>,
      <<"l","a","b","o","r","a","t","o","r","y">>,
      <<"s","t","u","d","e","n","t">>,
      <<"c","o","u","r","s","e">>,
      <<"s","e","m","e","s","t","e","r">>,
      <<"e","x","a","m">>,
      <<"a","s","s","i","g","n","m","e","n","t">>,
      <<"g","r","a","d","e">>,
      <<"c","g","p","a">>,
      <<"s","g","p","a">>,
      <<"a","t","t","e","n","d","a","n","c","e">>,
      <<"h","o","s","t","e","l">>,
      <<"m","e","s","s">>,
      <<"c","a","n","t","e","e","n">>,
      <<"l","i","b","r","a","r","y">>,
      <<"f","e","s","t">>,
      <<"e","l">>,
      <<"p","r","a","c","t","i","c","e"," ","s","c","h","o","o","l">>,
      <<"t","h","e","s","i","s">>,
      <<"d","i","s","s","e","r","t","a","t","i","o","n">>,
      <<"p","r","o","j","e","c","t">>,
      <<"a","d","m","i","s","s","i","o","n">>,
      <<"r","e","g","i","s","t","r","a","t","i","o","n">>,
      <<"f","e","e">>,
      <<"s","c","h","o","l","a","r","s","h","i","p">>,
      <<"t","a">>,
      <<"t","e","a","c","h","i","n","g"," ","a","s","s","i","s","t","a","n","t">>,
      <<"r","e","i","m","b","u","r","s","e","m","e","n","t">>,
      <<"n","o","c">>,
      <<"b","o","n","a","f","i","d","e">>,
      <<"t","r","a","n","s","c","r","i","p","t">>,
      <<"c","e","r","t","i","f","i","c","a","t","e">>,
      <<"p","l","a","c","e","m","e","n","t">>,
      <<"i","n","t","e","r","n","s","h","i","p">>,
      <<"c","o","m","p","a","n","y">>,
      <<"r","e","c","r","u","i","t">>,
      <<"p","a","c","k","a","g","e">>,
      <<"s","m","a","r","t","a","s","s","i","s","t">>,
      <<"s","m","a","r","t"," ","a","s","s","i","s","t">>,
      <<"a","s","s","i","s","t","a","n","t">>,
      <<"h","e","l","p">>,
      <<"g","u","i","d","e">>,
      <<"a","b","o","u","t">>,
      <<"w","h","o">>,
      <<"w","h","a","t">>,
      <<"w","h","e","n">>,
      <<"w","h","e","r","e">>,
      <<"h","o","w">>,
      <<"w","h","i","c","h">>,
      <<"c","o","n","t","a","c","t">>,
      <<"e","m","a","i","l">>,
      <<"p","h","o","n","e">>,
      <<"o","f","f","i","c","e">>,
      <<"t","i","m","i","n","g","s">>,
      <<"s","c","h","e","d","u","l","e">>,
      <<"t","i","m","e","t","a","b","l","e">>,
      <<"c","a","l","e","n","d","a","r">>
    }

OUT_OF_SCOPE_REPLY ==
    <<"!","!"," ","*","*","O","u","t"," ","o","f"," ","S","c","o","p","e","*","*","\n","\n">> \o
    <<"I","'","m"," ","C","S","I","S"," ","S","m","a","r","t","A","s","s","i","s","t"," ","-"," ","I"," ","c","a","n"," ","o","n","l","y"," ","a","n","s","w","e","r"," ","q","u","e","s","t","i","o","n","s"," ","r","e","l","a","t","e","d"," ","t","o"," ">> \o
    <<"*","*","B","I","T","S"," ","P","i","l","a","n","i"," ","G","o","a","*","*"," ","a","n","d"," ","i","t","s"," ","d","e","p","a","r","t","m","e","n","t","s",","," ","a","c","a","d","e","m","i","c","s",","," ","f","a","c","u","l","t","y",","," ","a","d","m","i","s","s","i","o","n","s",","," ">> \o
    <<"p","l","a","c","e","m","e","n","t","s",","," ","r","e","s","e","a","r","c","h",","," ","a","n","d"," ","s","t","u","d","e","n","t"," ","l","i","f","e",".","\n","\n">> \o
    <<"Y","o","u","r"," ","q","u","e","s","t","i","o","n"," ","a","p","p","e","a","r","s"," ","t","o"," ","b","e"," ","o","u","t","s","i","d","e"," ","t","h","a","t"," ","s","c","o","p","e","."," ">> \o
    <<"F","o","r"," ","a","n","y","t","h","i","n","g"," ","B","I","T","S","-","r","e","l","a","t","e","d",","," ","f","e","e","l"," ","f","r","e","e"," ","t","o"," ","a","s","k","!"," ","S">>

\* a query of at most this many words is always passed through
GuardWordLimit == 6

is_bits_related_words(query) ==
    LET q == Strip(Lower(query))
        words == SplitWs(q)
    IN  IF Len(words) <= GuardWordLimit THEN TRUE
        ELSE \E kw \in BITS_KEYWORDS : \E i \in 1..Len(words) : words[i] = kw

is_bits_related_lt(query) ==
    LET q == Strip(Lower(query))
        word_count == Len(SplitWs(q))
    IN  IF word_count < GuardWordLimit
        THEN TRUE
        ELSE \E kw \in BITS_KEYWORDS : Contains(kw, q)

is_bits_related(query) ==
    LET q == Strip(Lower(query))
        word_count == Len(SplitWs(q))
    IN  IF word_count <= GuardWordLimit
        THEN TRUE
        ELSE \E kw \in BITS_KEYWORDS : Contains(kw, q)

----------------------------------------------------------------------------
(* Server-sent events                                                      *)

\* a JSON null
None == <<"None">>

MetaEvent(sources, notes) ==
    [type |-> "metadata", sources |-> sources, content |-> <<>>, notes |-> notes]

DeltaEvent(text) ==
    [type |-> "delta", sources |-> <<>>, content |-> text, notes |-> None]

ErrorEvent(text) ==
    [type |-> "error", sources |-> <<>>, content |-> text, notes |-> None]

DoneEvent ==
    [type |-> "done", sources |-> <<>>, content |-> <<>>, notes |-> None]

----------------------------------------------------------------------------
(* ai-model/main.py: POST /api/chat                                        *)

MaxSources == 2     \* sources a retrieval returns, at most
MaxLines == 2       \* lines read from one streamed provider response, at most
ChatMaxWords == 7   \* words of a query, at most

Filler == <<"o","f">>
LabWord == <<"l","a","b">>

\* n words, the last one the keyword "lab" when withTerm
ChatQuery(n, withTerm) ==
    JoinWith([i \in 1..n |-> IF withTerm /\ i = n THEN LabWord ELSE Filler], <<" ">>)

\* the example query of the specification's out-of-scope scenario
ExampleQuery ==
    <<"w","h","a","t"," ","i","s"," ","t","h","e"," ",
      "c","a","p","i","t","a","l"," ","o","f"," ","F","r","a","n","c","e">>

ChatQueries ==
    {ChatQuery(n, t) : n \in 0..ChatMaxWords, t \in BOOLEAN} \cup {ExampleQuery}

Greeting == <<"h","i">>

\* pydantic has validated the body: every message has a role and a content
ChatRequests ==
    {[messages |-> <<>>, use_rag |-> u] : u \in BOOLEAN}
    \cup {[messages |-> <<[role |-> r, content |-> q]>>, use_rag |-> u] :
            r \in {"user", "assistant"}, q \in ChatQueries, u \in BOOLEAN}
    \cup {[messages |-> <<[role |-> "user", content |-> Greeting],
                          [role |-> r, content |-> q]>>, use_rag |-> u] :
            r \in {"user", "assistant"}, q \in ChatQueries, u \in BOOLEAN}

\* the source lists a retrieval may return
SourceLists == {[i \in 1..n |-> i] : n \in 0..MaxSources}

TokenText == <<"t","o","k">>
ErrText == <<"e","r","r">>

\* req.messages[-1].content
UserMessage == req.messages[Len(req.messages)].content

ChatIdle ==
    /\ service = "none"
    /\ req = [messages |-> <<>>, use_rag |-> FALSE]
    /\ pc = "idle"
    /\ httpStatus = 0
    /\ events = <<>>
    /\ retrievalCalls = 0
    /\ generationCalls = 0
    /\ synthFailed = FALSE
    /\ sources_payload = <<>>
    /\ system_prompt = "base"
    /\ oosIdx = 0
    /\ linesRead = 0

ChatInit ==
    /\ service = "ai-model"
    /\ req \in ChatRequests
    /\ pc = "start"
    /\ httpStatus = 0
    /\ events = <<>>
    /\ retrievalCalls = 0
    /\ generationCalls = 0
    /\ synthFailed = FALSE
    /\ sources_payload = <<>>
    /\ system_prompt = "base"
    /\ oosIdx = 0
    /\ linesRead = 0

\* if not req.messages: raise HTTPException(400)
ChatBadRequest ==
    /\ service = "ai-model" /\ pc = "start"
    /\ req.messages = <<>>
    /\ httpStatus' = 400
    /\ pc' = "rejected"
    /\ UNCHANGED <<storeVars, chunkVars, guardVars, beVars, gemVars, syncVars, indexVars, startVars, addVars>>
    /\ UNCHANGED <<service, req, events, retrievalCalls, generationCalls,
                   synthFailed, sources_payload, system_prompt, oosIdx, linesRead>>

\* if not is_bits_related(user_message): return EventSourceResponse(oos_stream())
ChatGuardReject ==
    /\ service = "ai-model" /\ pc = "start"
    /\ req.messages # <<>>
    /\ ~is_bits_related(UserMessage)
    /\ httpStatus' = 200
    /\ pc' = "oos_meta"
    /\ UNCHANGED <<storeVars, chunkVars, guardVars, beVars, gemVars, syncVars, indexVars, startVars, addVars>>
    /\ UNCHANGED <<service, req, events, retrievalCalls, generationCalls,
                   synthFailed, sources_payload, system_prompt, oosIdx, linesRead>>

\* if req.use_rag: ... await rag_service.build_context(user_message, ...)
ChatRetrieve ==
    /\ service = "ai-model" /\ pc = "start"
    /\ req.messages # <<>>
    /\ is_bits_related(UserMessage)
    /\ req.use_rag
    /\ retrievalCalls' = retrievalCalls + 1
    /\ pc' = "retrieving"
    /\ UNCHANGED <<storeVars, chunkVars, guardVars, beVars, gemVars, syncVars, indexVars, startVars, addVars>>
    /\ UNCHANGED <<service, req, httpStatus, events, generationCalls,
                   synthFailed, sources_payload, system_prompt, oosIdx, linesRead>>

\* build_context returned (context_text, sources, retrieval_ms); the context
\* text is empty exactly when there are no sources
ChatRetrieveReturn ==
    /\ service = "ai-model" /\ pc = "retrieving"
    /\ \E sources \in SourceLists :
        /\ sources_payload' = sources
        /\ system_prompt' = IF sources # <<>> THEN "rag" ELSE "base"
    /\ httpStatus' = 200
    /\ pc' = "gen_meta"
    /\ UNCHANGED <<storeVars, chunkVars, guardVars, beVars, gemVars, syncVars, indexVars, startVars, addVars>>
    /\ UNCHANGED <<service, req, events, retrievalCalls, generationCalls,
                   synthFailed, oosIdx, linesRead>>

\* except Exception: logger.warning("RAG retrieval failed")
ChatRetrieveRaise ==
    /\ service = "ai-model" /\ pc = "retrieving"
    /\ httpStatus' = 200
    /\ pc' = "gen_meta"
    /\ UNCHANGED <<storeVars, chunkVars, guardVars, beVars, gemVars, syncVars, indexVars, startVars, addVars>>
    /\ UNCHANGED <<service, req, events, retrievalCalls, generationCalls,
                   synthFailed, sources_payload, system_prompt, oosIdx, linesRead>>

\* use_rag is false: no retrieval
ChatSkipRag ==
    /\ service = "ai-model" /\ pc = "start"
    /\ req.messages # <<>>
    /\ is_bits_related(UserMessage)
    /\ ~req.use_rag
    /\ httpStatus' = 200
    /\ pc' = "gen_meta"
    /\ UNCHANGED <<storeVars, chunkVars, guardVars, beVars, gemVars, syncVars, indexVars, startVars, addVars>>
    /\ UNCHANGED <<service, req, events, retrievalCalls, generationCalls,
                   synthFailed, sources_payload, system_prompt, oosIdx, linesRead>>

\* OUT_OF_SCOPE_REPLY.split(" ")
OosWords == SplitOn(OUT_OF_SCOPE_REPLY, " ")

OosFragment_bare(word) == word

\* the content of one refusal fragment: word + " "
OosFragment(word) == word \o <<" ">>

\* oos_stream: the metadata event
OosYieldMeta ==
    /\ service = "ai-model" /\ pc = "oos_meta"
    /\ events' = Append(events, MetaEvent(<<>>, None))
    /\ oosIdx' = 1
    /\ pc' = "oos_words"
    /\ UNCHANGED <<storeVars, chunkVars, guardVars, beVars, gemVars, syncVars, indexVars, startVars, addVars>>
    /\ UNCHANGED <<service, req, httpStatus, retrievalCalls, generationCalls,
                   synthFailed, sources_payload, system_prompt, linesRead>>

\* oos_stream: for word in OUT_OF_SCOPE_REPLY.split(" "): yield a fragment
OosYieldWord ==
    /\ service = "ai-model" /\ pc = "oos_words"
    /\ oosIdx <= Len(OosWords)
    /\ events' = Append(events, DeltaEvent(OosFragment(OosWords[oosIdx])))
    /\ oosIdx' = oosIdx + 1
    /\ UNCHANGED <<storeVars, chunkVars, guardVars, beVars, gemVars, syncVars, indexVars, startVars, addVars>>
    /\ UNCHANGED <<service, req, pc, httpStatus, retrievalCalls, generationCalls,
                   synthFailed, sources_payload, system_prompt, linesRead>>

\* oos_stream: yield [DONE]
OosYieldDone ==
    /\ service = "ai-model" /\ pc = "oos_words"
    /\ oosIdx > Len(OosWords)
    /\ events' = Append(events, DoneEvent)
    /\ pc' = "closed"
    /\ UNCHANGED <<storeVars, chunkVars, guardVars, beVars, gemVars, syncVars, indexVars, startVars, addVars>>
    /\ UNCHANGED <<service, req, httpStatus, retrievalCalls, generationCalls,
                   synthFailed, sources_payload, system_prompt, oosIdx, linesRead>>

\* event_generator: the metadata event
GenYieldMeta ==
    /\ service = "ai-model" /\ pc = "gen_meta"
    /\ events' = Append(events, MetaEvent(sources_payload, None))
    /\ pc' = "gen_open"
    /\ UNCHANGED <<storeVars, chunkVars, guardVars, beVars, gemVars, syncVars, indexVars, startVars, addVars>>
    /\ UNCHANGED <<service, req, httpStatus, retrievalCalls, generationCalls,
                   synthFailed, sources_payload, system_prompt, oosIdx, linesRead>>

\* ollama_client.chat_stream: the POST is answered 2xx
OllamaOpen ==
    /\ service = "ai-model" /\ pc = "gen_open"
    /\ generationCalls' = generationCalls + 1
    /\ pc' = "gen_lines"
    /\ UNCHANGED <<storeVars, chunkVars, guardVars, beVars, gemVars, syncVars, indexVars, startVars, addVars>>
    /\ UNCHANGED <<service, req, httpStatus, events, retrievalCalls,
                   synthFailed, sources_payload, system_prompt, oosIdx, linesRead>>

\* ollama_client.chat_stream raises before a line is read (no connection,
\* raise_for_status); event_generator yields the error fragment
OllamaOpenRaise ==
    /\ service = "ai-model" /\ pc = "gen_open"
    /\ generationCalls' = generationCalls + 1
    /\ synthFailed' = TRUE
    /\ events' = Append(events, ErrorEvent(ErrText))
    /\ pc' = "gen_done"
    /\ UNCHANGED <<storeVars, chunkVars, guardVars, beVars, gemVars, syncVars, indexVars, startVars, addVars>>
    /\ UNCHANGED <<service, req, httpStatus, retrievalCalls,
                   sources_payload, system_prompt, oosIdx, linesRead>>

\* a line that carries a token: event_generator yields a delta fragment
OllamaLineToken ==
    /\ service = "ai-model" /\ pc = "gen_lines"
    /\ linesRead < MaxLines
    /\ linesRead' = linesRead + 1
    /\ events' = Append(events, DeltaEvent(TokenText))
    /\ UNCHANGED <<storeVars, chunkVars, guardVars, beVars, gemVars, syncVars, indexVars, startVars, addVars>>
    /\ UNCHANGED <<service, req, pc, httpStatus, retrievalCalls, generationCalls,
                   synthFailed, sources_payload, system_prompt, oosIdx>>

\* an empty line, a line that is not JSON, or one with no message content
OllamaLineSkipped ==
    /\ service = "ai-model" /\ pc = "gen_lines"
    /\ linesRead < MaxLines
    /\ linesRead' = linesRead + 1
    /\ UNCHANGED <<storeVars, chunkVars, guardVars, beVars, gemVars, syncVars, indexVars, startVars, addVars>>
    /\ UNCHANGED <<service, req, pc, httpStatus, events, retrievalCalls,
                   generationCalls, synthFailed, sources_payload, system_prompt,
                   oosIdx>>

\* the response breaks off while it is read (timeout, connection lost)
OllamaStreamRaise ==
    /\ service = "ai-model" /\ pc = "gen_lines"
    /\ synthFailed' = TRUE
    /\ events' = Append(events, ErrorEvent(ErrText))
    /\ pc' = "gen_done"
    /\ UNCHANGED <<storeVars, chunkVars, guardVars, beVars, gemVars, syncVars, indexVars, startVars, addVars>>
    /\ UNCHANGED <<service, req, httpStatus, retrievalCalls, generationCalls,
                   sources_payload, system_prompt, oosIdx, linesRead>>

\* the response ends
OllamaStreamEnd ==
    /\ service = "ai-model" /\ pc = "gen_lines"
    /\ pc' = "gen_done"
    /\ UNCHANGED <<storeVars, chunkVars, guardVars, beVars, gemVars, syncVars, indexVars, startVars, addVars>>
    /\ UNCHANGED <<service, req, httpStatus, events, retrievalCalls,
                   generationCalls, synthFailed, sources_payload, system_prompt,
                   oosIdx, linesRead>>

\* event_generator: yield [DONE]
GenYieldDone ==
    /\ service = "ai-model" /\ pc = "gen_done"
    /\ events' = Append(events, DoneEvent)
    /\ pc' = "closed"
    /\ UNCHANGED <<storeVars, chunkVars, guardVars, beVars, gemVars, syncVars, indexVars, startVars, addVars>>
    /\ UNCHANGED <<service, req, httpStatus, retrievalCalls, generationCalls,
                   synthFailed, sources_payload, system_prompt, oosIdx, linesRead>>

----------------------------------------------------------------------------
(* backend/database.py: the retrieval strategies and search_all            *)

MaxHits == 2        \* documents the corpus holds, and a strategy returns, at most
BeMaxMsgs == 2      \* messages of a backend request, at most

DocIds == 1..MaxHits

\* a SourceDoc: similarity is <<>> for None, <<percent>> otherwise
SourceDoc(id, similarity) == [id |-> id, similarity |-> similarity]

\* round(d["similarity"] * 100) of a row match_campus_documents returns
VecSimilarities == {<<87>>}

\* the result lists a strategy may get from the database: rows are distinct
HitLists(similarities) ==
    UNION { { s \in [1..n -> {SourceDoc(d, x) : d \in DocIds, x \in similarities}] :
                \A i, j \in 1..n : i # j => s[i].id # s[j].id } : n \in 0..MaxHits }

TaskIdle == [state |-> "idle", result |-> <<>>, failed |-> FALSE]
TaskPending == [state |-> "pending", result |-> <<>>, failed |-> FALSE]
TaskDone(result, failed) == [state |-> "done", result |-> result, failed |-> failed]

\* sql_structured_search: category_map, in the order of the dict
category_map ==
    << [kw |-> <<"t","a">>, cat |-> "TA Policy"],
       [kw |-> <<"r","e","i","m","b","u","r","s","e","m","e","n","t">>, cat |-> "Finance"],
       [kw |-> <<"l","a","b">>, cat |-> "Lab Booking"],
       [kw |-> <<"e","x","a","m">>, cat |-> "Academics"],
       [kw |-> <<"s","c","h","e","d","u","l","e">>, cat |-> "Academics"] >>

\* the category of the first entry whose keyword the query holds, or ""
MatchedCategory(query) ==
    LET hits == {i \in 1..Len(category_map) : Contains(category_map[i].kw, Lower(query))}
    IN  IF hits = {} THEN ""
        ELSE category_map[CHOOSE i \in hits : \A j \in hits : i <= j].cat

NeedsKeywordFallback_either(vec_results, sql_results) ==
    vec_results = <<>> \/ sql_results = <<>>

\* if not vec_results and not sql_results
NeedsKeywordFallback(vec_results, sql_results) ==
    vec_results = <<>> /\ sql_results = <<>>

RECURSIVE MergeFrom(_, _, _)
MergeFrom(docs, seen_ids, merged) ==
    IF docs = <<>> THEN merged
    ELSE IF Head(docs).id \in seen_ids
         THEN MergeFrom(Tail(docs), seen_ids, merged)
         ELSE MergeFrom(Tail(docs), seen_ids \cup {Head(docs).id}, Append(merged, Head(docs)))

Merge_sql_first(vec_results, sql_results) ==
    MergeFrom(sql_results \o vec_results, {}, <<>>)

\* for doc in vec_results + sql_results: keep the first document of each id
Merge(vec_results, sql_results) == MergeFrom(vec_results \o sql_results, {}, <<>>)

\* the context string: one block per merged document, "" when there is none;
\* a block shows the relevance only when doc.similarity is truthy
RenderContext(merged) ==
    [i \in 1..Len(merged) |->
        [doc |-> merged[i].id,
         relevance |-> IF merged[i].similarity # <<>> /\ merged[i].similarity[1] # 0
                       THEN merged[i].similarity ELSE <<>>]]

----------------------------------------------------------------------------
(* backend/main.py, backend/agents.py: POST /chat                          *)

TaQuery == <<" ","t","a","?"," ">>

BeQueries == {TaQuery, Greeting}

\* a message of the JSON body; the body is not validated, so a message may
\* come without its "content" key
BeMessages ==
    {[role |-> "user", content |-> q, has_content |-> TRUE] : q \in BeQueries}
    \cup {[role |-> "assistant", content |-> Greeting, has_content |-> h] : h \in BOOLEAN}
    \cup {[role |-> "user", content |-> <<>>, has_content |-> FALSE]}

BeRequests ==
    UNION { { [messages |-> m] : m \in [1..n -> BeMessages] } : n \in 0..BeMaxMsgs }

NoContext ==
    [query |-> <<>>, sources |-> <<>>, raw_context |-> <<>>,
     analyst_notes |-> <<>>, history |-> <<>>]

BeIdle ==
    /\ env = [supabase |-> FALSE, gemini |-> FALSE]
    /\ vec = TaskIdle
    /\ sql = TaskIdle
    /\ kwd = TaskIdle
    /\ ctx = NoContext
    /\ analyst = "idle"

BeInit ==
    /\ service = "backend"
    /\ req \in BeRequests
    /\ pc = "start"
    /\ httpStatus = 0
    /\ events = <<>>
    /\ retrievalCalls = 0
    /\ generationCalls = 0
    /\ synthFailed = FALSE
    /\ sources_payload = <<>>
    /\ system_prompt = "base"
    /\ oosIdx = 0
    /\ linesRead = 0
    /\ env \in [supabase : BOOLEAN, gemini : BOOLEAN]
    /\ vec = TaskIdle
    /\ sql = TaskIdle
    /\ kwd = TaskIdle
    /\ ctx = NoContext
    /\ analyst = "idle"

\* user_msgs = [m for m in messages if m.get("role") == "user"]
UserMsgs == SelectSeq(req.messages, LAMBDA m : m.role = "user")

\* no messages, or no user message: HTTPException(400)
BeBadRequest ==
    /\ service = "backend" /\ pc = "start"
    /\ req.messages = <<>> \/ UserMsgs = <<>>
    /\ httpStatus' = 400
    /\ pc' = "rejected"
    /\ UNCHANGED <<storeVars, chunkVars, guardVars, beVars, gemVars, syncVars, indexVars, startVars, addVars>>
    /\ UNCHANGED <<service, req, events, retrievalCalls, generationCalls,
                   synthFailed, sources_payload, system_prompt, oosIdx, linesRead>>

\* user_msgs[-1]["content"] raises KeyError: the handler fails
BeHandlerRaise ==
    /\ service = "backend" /\ pc = "start"
    /\ UserMsgs # <<>>
    /\ ~UserMsgs[Len(UserMsgs)].has_content
    /\ httpStatus' = 500
    /\ pc' = "rejected"
    /\ UNCHANGED <<storeVars, chunkVars, guardVars, beVars, gemVars, syncVars, indexVars, startVars, addVars>>
    /\ UNCHANGED <<service, req, events, retrievalCalls, generationCalls,
                   synthFailed, sources_payload, system_prompt, oosIdx, linesRead>>

\* latest_query = user_msgs[-1]["content"].strip(); return StreamingResponse(...)
BeAccept ==
    /\ service = "backend" /\ pc = "start"
    /\ UserMsgs # <<>>
    /\ UserMsgs[Len(UserMsgs)].has_content
    /\ httpStatus' = 200
    /\ ctx' = [NoContext EXCEPT !.query = Strip(UserMsgs[Len(UserMsgs)].content),
                                !.history = req.messages]
    /\ pc' = "be_run"
    /\ UNCHANGED <<storeVars, chunkVars, guardVars, gemVars, env, vec, sql, kwd, analyst, syncVars, indexVars, startVars, addVars>>
    /\ UNCHANGED <<service, req, events, retrievalCalls, generationCalls,
                   synthFailed, sources_payload, system_prompt, oosIdx, linesRead>>

\* search_all: get_supabase() raises RuntimeError, nothing catches it and the
\* response generator ends with the exception
BeConfigError ==
    /\ service = "backend" /\ pc = "be_run"
    /\ ~env.supabase
    /\ pc' = "aborted"
    /\ UNCHANGED <<storeVars, chunkVars, guardVars, beVars, gemVars, syncVars, indexVars, startVars, addVars>>
    /\ UNCHANGED <<service, req, httpStatus, events, retrievalCalls, generationCalls,
                   synthFailed, sources_payload, system_prompt, oosIdx, linesRead>>

\* search_all: asyncio.gather(vector_search(...), sql_structured_search(...))
BeGather ==
    /\ service = "backend" /\ pc = "be_run"
    /\ env.supabase
    /\ vec' = TaskPending
    /\ sql' = TaskPending
    /\ pc' = "be_gather"
    /\ UNCHANGED <<storeVars, chunkVars, guardVars, gemVars, env, kwd, ctx, analyst, syncVars, indexVars, startVars, addVars>>
    /\ UNCHANGED <<service, req, httpStatus, events, retrievalCalls, generationCalls,
                   synthFailed, sources_payload, system_prompt, oosIdx, linesRead>>

\* vector_search returns the rows of match_campus_documents
BeVectorReturn ==
    /\ service = "backend" /\ pc = "be_gather"
    /\ vec.state = "pending"
    /\ \E r \in HitLists(VecSimilarities) : vec' = TaskDone(r, FALSE)
    /\ UNCHANGED <<storeVars, chunkVars, guardVars, gemVars, env, sql, kwd, ctx, analyst, syncVars, indexVars, startVars, addVars>>
    /\ UNCHANGED chatVars

\* vector_search: no embedding (no key, provider error) or the rpc raises: []
BeVectorFail ==
    /\ service = "backend" /\ pc = "be_gather"
    /\ vec.state = "pending"
    /\ vec' = TaskDone(<<>>, TRUE)
    /\ UNCHANGED <<storeVars, chunkVars, guardVars, gemVars, env, sql, kwd, ctx, analyst, syncVars, indexVars, startVars, addVars>>
    /\ UNCHANGED chatVars

\* sql_structured_search returns: no rows unless a category matched
BeSqlReturn ==
    /\ service = "backend" /\ pc = "be_gather"
    /\ sql.state = "pending"
    /\ \E r \in HitLists({<<>>}) :
        /\ MatchedCategory(ctx.query) = "" => r = <<>>
        /\ sql' = TaskDone(r, FALSE)
    /\ UNCHANGED <<storeVars, chunkVars, guardVars, gemVars, env, vec, kwd, ctx, analyst, syncVars, indexVars, startVars, addVars>>
    /\ UNCHANGED chatVars

BeSqlFail_raise ==
    /\ service = "backend" /\ pc = "be_gather"
    /\ sql.state = "pending"
    /\ MatchedCategory(ctx.query) # ""
    /\ sql' = TaskDone(<<>>, TRUE)
    /\ pc' = "aborted"
    /\ UNCHANGED <<storeVars, chunkVars, guardVars, gemVars, env, vec, kwd, ctx, analyst, syncVars, indexVars, startVars, addVars>>
    /\ UNCHANGED <<service, req, httpStatus, events, retrievalCalls, generationCalls,
                   synthFailed, sources_payload, system_prompt, oosIdx, linesRead>>

\* sql_structured_search: the table query raises: []
BeSqlFail ==
    /\ service = "backend" /\ pc = "be_gather"
    /\ sql.state = "pending"
    /\ MatchedCategory(ctx.query) # ""
    /\ sql' = TaskDone(<<>>, TRUE)
    /\ UNCHANGED <<storeVars, chunkVars, guardVars, gemVars, env, vec, kwd, ctx, analyst, syncVars, indexVars, startVars, addVars>>
    /\ UNCHANGED chatVars

\* search_all after the gather: the fallback, the merge and the context;
\* ResearcherAgent.run wraps the result in the AgentContext
BeJoin ==
    /\ service = "backend" /\ pc = "be_gather"
    /\ vec.state = "done" /\ sql.state = "done"
    /\ \E k \in HitLists({<<>>}), kfailed \in BOOLEAN :
        /\ kfailed => k = <<>>
        /\ IF NeedsKeywordFallback(vec.result, sql.result)
           THEN /\ kwd' = TaskDone(k, kfailed)
                /\ ctx' = [ctx EXCEPT !.sources = Merge(k, sql.result),
                                      !.raw_context = RenderContext(Merge(k, sql.result))]
           ELSE /\ k = <<>> /\ ~kfailed
                /\ kwd' = kwd
                /\ ctx' = [ctx EXCEPT !.sources = Merge(vec.result, sql.result),
                                      !.raw_context = RenderContext(Merge(vec.result, sql.result))]
    /\ pc' = "be_analyst"
    /\ UNCHANGED <<storeVars, chunkVars, guardVars, gemVars, env, vec, sql, analyst, syncVars, indexVars, startVars, addVars>>
    /\ UNCHANGED <<service, req, httpStatus, events, retrievalCalls, generationCalls,
                   synthFailed, sources_payload, system_prompt, oosIdx, linesRead>>

NoContextNote == <<"N","o"," ","c","o","n","t","e","x","t">>

\* the message content Ollama may answer the analyst with
AnalystReplies == { <<>>, <<" ">>, <<" ","o","k"," ">> }

\* AnalystAgent.run without context: the fixed note, no provider call.
\* search_all has returned: its locals are gone
BeAnalystNoContext ==
    /\ service = "backend" /\ pc = "be_analyst"
    /\ ctx.raw_context = <<>>
    /\ ctx' = [ctx EXCEPT !.analyst_notes = NoContextNote]
    /\ vec' = TaskIdle /\ sql' = TaskIdle /\ kwd' = TaskIdle
    /\ analyst' = "skipped"
    /\ pc' = "be_artifacts"
    /\ UNCHANGED <<storeVars, chunkVars, guardVars, gemVars, env, syncVars, indexVars, startVars, addVars>>
    /\ UNCHANGED <<service, req, httpStatus, events, retrievalCalls, generationCalls,
                   synthFailed, sources_payload, system_prompt, oosIdx, linesRead>>

BeAnalystReply_drops_sources ==
    /\ service = "backend" /\ pc = "be_analyst"
    /\ ctx.raw_context # <<>>
    /\ \E reply \in AnalystReplies :
        ctx' = [ctx EXCEPT !.analyst_notes = Strip(reply), !.sources = <<>>]
    /\ vec' = TaskIdle /\ sql' = TaskIdle /\ kwd' = TaskIdle
    /\ analyst' = "replied"
    /\ pc' = "be_artifacts"
    /\ UNCHANGED <<storeVars, chunkVars, guardVars, gemVars, env, syncVars, indexVars, startVars, addVars>>
    /\ UNCHANGED <<service, req, httpStatus, events, retrievalCalls, generationCalls,
                   synthFailed, sources_payload, system_prompt, oosIdx, linesRead>>

\* AnalystAgent.run: Ollama answers; notes = content.strip()
BeAnalystReply ==
    /\ service = "backend" /\ pc = "be_analyst"
    /\ ctx.raw_context # <<>>
    /\ \E reply \in AnalystReplies :
        ctx' = [ctx EXCEPT !.analyst_notes = Strip(reply)]
    /\ vec' = TaskIdle /\ sql' = TaskIdle /\ kwd' = TaskIdle
    /\ analyst' = "replied"
    /\ pc' = "be_artifacts"
    /\ UNCHANGED <<storeVars, chunkVars, guardVars, gemVars, env, syncVars, indexVars, startVars, addVars>>
    /\ UNCHANGED <<service, req, httpStatus, events, retrievalCalls, generationCalls,
                   synthFailed, sources_payload, system_prompt, oosIdx, linesRead>>

BeAnalystFail_raise ==
    /\ service = "backend" /\ pc = "be_analyst"
    /\ ctx.raw_context # <<>>
    /\ vec' = TaskIdle /\ sql' = TaskIdle /\ kwd' = TaskIdle
    /\ analyst' = "failed"
    /\ pc' = "aborted"
    /\ UNCHANGED <<storeVars, chunkVars, guardVars, gemVars, env, ctx, syncVars, indexVars, startVars, addVars>>
    /\ UNCHANGED <<service, req, httpStatus, events, retrievalCalls, generationCalls,
                   synthFailed, sources_payload, system_prompt, oosIdx, linesRead>>

\* AnalystAgent.run: httpx.ConnectError or any other exception: notes = ""
BeAnalystFail ==
    /\ service = "backend" /\ pc = "be_analyst"
    /\ ctx.raw_context # <<>>
    /\ ctx' = [ctx EXCEPT !.analyst_notes = <<>>]
    /\ vec' = TaskIdle /\ sql' = TaskIdle /\ kwd' = TaskIdle
    /\ analyst' = "failed"
    /\ pc' = "be_artifacts"
    /\ UNCHANGED <<storeVars, chunkVars, guardVars, gemVars, env, syncVars, indexVars, startVars, addVars>>
    /\ UNCHANGED <<service, req, httpStatus, events, retrievalCalls, generationCalls,
                   synthFailed, sources_payload, system_prompt, oosIdx, linesRead>>

\* event_stream, step 2: slide deck or image generation; every failure in it
\* is caught, and it changes only the artifact links of the metadata event
BeArtifacts ==
    /\ service = "backend" /\ pc = "be_artifacts"
    /\ pc' = "be_meta"
    /\ UNCHANGED <<storeVars, chunkVars, guardVars, beVars, gemVars, syncVars, indexVars, startVars, addVars>>
    /\ UNCHANGED <<service, req, httpStatus, events, retrievalCalls, generationCalls,
                   synthFailed, sources_payload, system_prompt, oosIdx, linesRead>>

\* [s.to_dict() for s in ctx.sources]: the content is not part of it
SourceDicts(sources) ==
    [i \in 1..Len(sources) |-> [id |-> sources[i].id, similarity |-> sources[i].similarity]]

\* event_stream, step 3: the metadata event
BeYieldMeta ==
    /\ service = "backend" /\ pc = "be_meta"
    /\ events' = Append(events,
                        MetaEvent(SourceDicts(ctx.sources),
                                  IF ctx.analyst_notes # <<>> THEN ctx.analyst_notes ELSE None))
    /\ pc' = "be_llm"
    /\ UNCHANGED <<storeVars, chunkVars, guardVars, beVars, gemVars, syncVars, indexVars, startVars, addVars>>
    /\ UNCHANGED <<service, req, httpStatus, retrievalCalls, generationCalls,
                   synthFailed, sources_payload, system_prompt, oosIdx, linesRead>>

WarnNoKey == <<"W",":","k","e","y">>
WarnStatus == <<"W",":","s","t","a","t","u","s">>
WarnError == <<"W",":","e","r","r","o","r">>

\* ctx.history[:-1]
HistoryButLast == SubSeq(ctx.history, 1, Len(ctx.history) - 1)

\* "CONTEXT DOCUMENTS: [None retrieved]"
NoneRetrieved == <<"[","N","o","n","e"," ","r","e","t","r","i","e","v","e","d","]">>

\* user_content: the query, the context documents or the marker that there
\* are none, and the analyst notes when there are any
UserContent ==
    [query |-> ctx.query,
     context |-> IF ctx.raw_context # <<>> THEN ctx.raw_context ELSE NoneRetrieved,
     notes |-> ctx.analyst_notes]

\* the "contents" of the payload: ctx.history[:-1] with each msg["role"] as it
\* came, then the composed user message
FinalizerMessages ==
    [i \in 1..Len(HistoryButLast) |->
        [role |-> HistoryButLast[i].role, text |-> HistoryButLast[i].content]]
    \o <<[role |-> "user", text |-> UserContent]>>

\* FinalizerAgent.stream without GEMINI_API_KEY: one warning, no request
FinalizerNoKey ==
    /\ service = "backend" /\ pc = "be_llm"
    /\ ~env.gemini
    /\ events' = Append(events, DeltaEvent(WarnNoKey))
    /\ pc' = "be_done"
    /\ UNCHANGED <<storeVars, chunkVars, guardVars, beVars, gemVars, syncVars, indexVars, startVars, addVars>>
    /\ UNCHANGED <<service, req, httpStatus, retrievalCalls, generationCalls,
                   synthFailed, sources_payload, system_prompt, oosIdx, linesRead>>

\* FinalizerAgent.stream: msg["content"] raises KeyError while the message
\* list is built, outside the try: the response generator ends with it
FinalizerHistoryRaise ==
    /\ service = "backend" /\ pc = "be_llm"
    /\ env.gemini
    /\ \E i \in 1..Len(HistoryButLast) : ~HistoryButLast[i].has_content
    /\ synthFailed' = TRUE
    /\ pc' = "aborted"
    /\ UNCHANGED <<storeVars, chunkVars, guardVars, beVars, gemVars, syncVars, indexVars, startVars, addVars>>
    /\ UNCHANGED <<service, req, httpStatus, events, retrievalCalls, generationCalls,
                   sources_payload, system_prompt, oosIdx, linesRead>>

\* FinalizerAgent.stream: the POST is answered 2xx
FinalizerOpen ==
    /\ service = "backend" /\ pc = "be_llm"
    /\ env.gemini
    /\ \A i \in 1..Len(HistoryButLast) : HistoryButLast[i].has_content
    /\ generationCalls' = generationCalls + 1
    /\ pc' = "be_lines"
    /\ UNCHANGED <<storeVars, chunkVars, guardVars, beVars, gemVars, syncVars, indexVars, startVars, addVars>>
    /\ UNCHANGED <<service, req, httpStatus, events, retrievalCalls,
                   synthFailed, sources_payload, system_prompt, oosIdx, linesRead>>

\* FinalizerAgent.stream: raise_for_status raises (HTTPStatusError) or the
\* request fails otherwise: one warning fragment
FinalizerOpenRaise ==
    /\ service = "backend" /\ pc = "be_llm"
    /\ env.gemini
    /\ \A i \in 1..Len(HistoryButLast) : HistoryButLast[i].has_content
    /\ generationCalls' = generationCalls + 1
    /\ synthFailed' = TRUE
    /\ \E w \in {WarnStatus, WarnError} : events' = Append(events, DeltaEvent(w))
    /\ pc' = "be_done"
    /\ UNCHANGED <<storeVars, chunkVars, guardVars, beVars, gemVars, syncVars, indexVars, startVars, addVars>>
    /\ UNCHANGED <<service, req, httpStatus, retrievalCalls,
                   sources_payload, system_prompt, oosIdx, linesRead>>

\* a data line with text: event_stream yields a delta fragment
FinalizerLineText ==
    /\ service = "backend" /\ pc = "be_lines"
    /\ linesRead < MaxLines
    /\ linesRead' = linesRead + 1
    /\ events' = Append(events, DeltaEvent(TokenText))
    /\ UNCHANGED <<storeVars, chunkVars, guardVars, beVars, gemVars, syncVars, indexVars, startVars, addVars>>
    /\ UNCHANGED <<service, req, pc, httpStatus, retrievalCalls, generationCalls,
                   synthFailed, sources_payload, system_prompt, oosIdx>>

\* a line that is no data line, "[DONE]", not JSON, or without text
FinalizerLineSkipped ==
    /\ service = "backend" /\ pc = "be_lines"
    /\ linesRead < MaxLines
    /\ linesRead' = linesRead + 1
    /\ UNCHANGED <<storeVars, chunkVars, guardVars, beVars, gemVars, syncVars, indexVars, startVars, addVars>>
    /\ UNCHANGED <<service, req, pc, httpStatus, events, retrievalCalls,
                   generationCalls, synthFailed, sources_payload, system_prompt,
                   oosIdx>>

\* the response breaks off while it is read: one warning fragment
FinalizerStreamRaise ==
    /\ service = "backend" /\ pc = "be_lines"
    /\ synthFailed' = TRUE
    /\ events' = Append(events, DeltaEvent(WarnError))
    /\ pc' = "be_done"
    /\ UNCHANGED <<storeVars, chunkVars, guardVars, beVars, gemVars, syncVars, indexVars, startVars, addVars>>
    /\ UNCHANGED <<service, req, httpStatus, retrievalCalls, generationCalls,
                   sources_payload, system_prompt, oosIdx, linesRead>>

\* the response ends
FinalizerStreamEnd ==
    /\ service = "backend" /\ pc = "be_lines"
    /\ pc' = "be_done"
    /\ UNCHANGED <<storeVars, chunkVars, guardVars, beVars, gemVars, syncVars, indexVars, startVars, addVars>>
    /\ UNCHANGED <<service, req, httpStatus, events, retrievalCalls,
                   generationCalls, synthFailed, sources_payload, system_prompt,
                   oosIdx, linesRead>>

\* event_stream, step 5: yield [DONE]
BeYieldDone ==
    /\ service = "backend" /\ pc = "be_done"
    /\ events' = Append(events, DoneEvent)
    /\ pc' = "closed"
    /\ UNCHANGED <<storeVars, chunkVars, guardVars, beVars, gemVars, syncVars, indexVars, startVars, addVars>>
    /\ UNCHANGED <<service, req, httpStatus, retrievalCalls, generationCalls,
                   synthFailed, sources_payload, system_prompt, oosIdx, linesRead>>

----------------------------------------------------------------------------
(* ai-model/app/vector_store.py: the in-memory index                       *)
(*                                                                         *)
(* A similarity is held in hundredths.  The embeddings are chosen with     *)
(* whole norms, so that the floating-point dot product, norms and their    *)
(* product are exact and the quotient is the correctly rounded value of    *)
(* the fraction computed here.                                             *)

MaxDocs == 2        \* chunks the index holds, at most
MaxLimit == 2       \* the limit of a search, at most

StoreIds == {"a", "b", "c"}

Categories == {"x", "y"}

\* no category given: no filter_fn
NoCategory == "none"

Embeddings == { <<>>, <<0, 0>>, <<1, 0>>, <<3, 4>>, <<1>> }

QueryEmbeddings == { <<0, 0>>, <<1, 0>>, <<3, 4>>, <<1>> }

\* thresholds in hundredths: the default of search, a similarity that occurs,
\* and the next value above it
Thresholds == {0, 60, 61}

\* a Document: its content is of no account to the index
StoreDocs ==
    [id : StoreIds, embedding : Embeddings, category : Categories]

RECURSIVE SumSeq(_)
SumSeq(s) == IF s = <<>> THEN 0 ELSE Head(s) + SumSeq(Tail(s))

\* sum(x * y for x, y in zip(a, b))
Dot(a, b) == SumSeq([i \in 1..Len(a) |-> a[i] * b[i]])

\* math.sqrt of a square number
Sqrt(n) == CHOOSE r \in 0..n : r * r = n

\* what _cosine_similarity does: the error it raises, or the value it returns
Raises(error) == [raised |-> error, value |-> 0]
Returns(value) == [raised |-> "none", value |-> value]

_cosine_similarity_unguarded(a, b) ==
    IF Len(a) # Len(b) THEN Raises("ValueError")
    ELSE LET dot == Dot(a, b)
             norm_a == Sqrt(Dot(a, a))
             norm_b == Sqrt(Dot(b, b))
         IN  IF norm_a * norm_b = 0 THEN Raises("ZeroDivisionError")
             ELSE Returns((100 * dot) \div (norm_a * norm_b))

\* _cosine_similarity, the value in hundredths
_cosine_similarity(a, b) ==
    IF Len(a) # Len(b) THEN Raises("ValueError")
    ELSE LET dot == Dot(a, b)
             norm_a == Sqrt(Dot(a, a))
             norm_b == Sqrt(Dot(b, b))
         IN  IF norm_a = 0 \/ norm_b = 0 THEN Returns(0)
             ELSE Returns((100 * dot) \div (norm_a * norm_b))

DictSet_front(docs, doc) ==
    IF \E i \in 1..Len(docs) : docs[i].id = doc.id
    THEN [i \in 1..Len(docs) |-> IF docs[i].id = doc.id THEN doc ELSE docs[i]]
    ELSE <<doc>> \o docs

\* self._docs[doc.id] = doc: a new key goes to the end of the dict, a key the
\* dict holds keeps its place
DictSet(docs, doc) ==
    IF \E i \in 1..Len(docs) : docs[i].id = doc.id
    THEN [i \in 1..Len(docs) |-> IF docs[i].id = doc.id THEN doc ELSE docs[i]]
    ELSE Append(docs, doc)

\* self._docs.pop(doc_id, None)
DictPop(docs, doc_id) == SelectSeq(docs, LAMBDA d : d.id # doc_id)

\* filter_fn and not filter_fn(doc)
FilteredOut(doc, category) == category # NoCategory /\ doc.category # category

ScanRaises_unfiltered(docs, query_embedding, category) ==
    \E i \in 1..Len(docs) :
        /\ docs[i].embedding # <<>>
        /\ _cosine_similarity(query_embedding, docs[i].embedding).raised # "none"

\* the loop of search reaches a stored embedding for which _cosine_similarity
\* raises
ScanRaises(docs, query_embedding, category) ==
    \E i \in 1..Len(docs) :
        /\ docs[i].embedding # <<>>
        /\ ~FilteredOut(docs[i], category)
        /\ _cosine_similarity(query_embedding, docs[i].embedding).raised # "none"

MeetsThreshold_strict(sim, threshold) == sim > threshold

\* if sim >= threshold
MeetsThreshold(sim, threshold) == sim >= threshold

RECURSIVE Scan(_, _, _, _)
\* the loop of search over self._docs.values()
Scan(docs, query_embedding, threshold, category) ==
    IF docs = <<>> THEN <<>>
    ELSE LET doc == Head(docs)
             rest == Scan(Tail(docs), query_embedding, threshold, category)
         IN  IF doc.embedding = <<>> \/ FilteredOut(doc, category) THEN rest
             ELSE LET sim == _cosine_similarity(query_embedding, doc.embedding).value
                  IN  IF MeetsThreshold(sim, threshold)
                      THEN <<[document |-> doc, similarity |-> sim]>> \o rest
                      ELSE rest

SortedInsert_before_equal(sorted, r) ==
    LET k == Cardinality({i \in 1..Len(sorted) : sorted[i].similarity > r.similarity})
    IN  SubSeq(sorted, 1, k) \o <<r>> \o SubSeq(sorted, k + 1, Len(sorted))

\* where a stable descending sort puts r among the sorted results: behind
\* every result that is not smaller
SortedInsert(sorted, r) ==
    LET k == Cardinality({i \in 1..Len(sorted) : sorted[i].similarity >= r.similarity})
    IN  SubSeq(sorted, 1, k) \o <<r>> \o SubSeq(sorted, k + 1, Len(sorted))

RECURSIVE SortDescFrom(_, _)
SortDescFrom(results, sorted) ==
    IF results = <<>> THEN sorted
    ELSE SortDescFrom(Tail(results), SortedInsert(sorted, Head(results)))

\* results.sort(key=lambda r: r.similarity, reverse=True): stable
SortDesc(results) == SortDescFrom(results, <<>>)

SliceTo_one_more(s, n) ==
    SubSeq(s, 1, IF n + 1 < Len(s) THEN n + 1 ELSE Len(s))

\* a Python slice s[:n]
SliceTo(s, n) ==
    IF n >= 0 THEN SubSeq(s, 1, IF n < Len(s) THEN n ELSE Len(s))
    ELSE SubSeq(s, 1, IF Len(s) + n > 0 THEN Len(s) + n ELSE 0)

\* VectorStore.search, when it does not raise
Search(docs, query_embedding, limit, threshold, category) ==
    SliceTo(SortDesc(Scan(docs, query_embedding, threshold, category)), limit)

\* no operation yet
VsNoOp ==
    [name |-> "none", doc |-> <<>>, query |-> <<>>, raised |-> FALSE,
     result |-> <<>>, before |-> <<>>]

NoReload == [phase |-> "idle", todo |-> <<>>, query |-> <<>>, ranked |-> <<>>]

StoreIdle ==
    /\ vsDocs = <<>>
    /\ vsOp = VsNoOp
    /\ vsInserted = <<>>
    /\ vsReload = NoReload

\* RAGConfig.chunk_size, RAGConfig.chunk_overlap
chunk_size == 500
chunk_overlap == 50

\* a metadata dict without entries
NoMetadata == [key \in {} |-> <<>>]

\* doc_processor = DocumentProcessor(), no document handed to it
ChunkIdle ==
    /\ ckContent = <<>>
    /\ ckMetadata = NoMetadata
    /\ ckSize = chunk_size
    /\ ckOverlap = chunk_overlap
    /\ ckPc = "idle"
    /\ ckDocs = <<>>
    /\ ckPrev = <<>>

\* no request to /api/chat/sync
SyncIdle ==
    /\ syReq = [messages |-> <<>>, use_rag |-> FALSE]
    /\ syPc = "idle"
    /\ syStatus = 0
    /\ syBody = <<>>
    /\ sySources = <<>>
    /\ syPrompt = "base"

\* no call of initialize, no query
IndexIdle ==
    /\ ixDocuments = <<>>
    /\ ixPc = "idle"
    /\ ixChunks = <<>>
    /\ ixAt = [doc |-> 0, chunk |-> 0]
    /\ ixTotal = 0
    /\ ixLog = <<>>
    /\ qPc = "idle"
    /\ qSeen = <<>>
    /\ qSources = <<>>
    /\ qPrompt = "base"

\* the lifespan is not followed, no request to /api/health
StartIdle ==
    /\ stPc = "off"
    /\ stHealthy = FALSE
    /\ hPc = "idle"
    /\ hOk = FALSE
    /\ hResp = <<>>

\* no call of add_document
AddIdle ==
    /\ adPc = "idle"
    /\ adChunks = <<>>
    /\ adAt = 0
    /\ adEmb = <<>>

\* the index is taken from one state to the next by add, delete and clear; a
\* search leaves it as it is, so what follows a search is what follows the
\* state it was made in, and only the reload is followed up from it
StoreFree == vsReload.phase = "idle" /\ vsOp.name # "search"

\* the ids in insertion order after an add of doc
InsertedAfterAdd(doc) ==
    IF \E i \in 1..Len(vsInserted) : vsInserted[i] = doc.id
    THEN vsInserted
    ELSE Append(vsInserted, doc.id)

AddTo_unchecked(docs, doc) ==
    [raised |-> FALSE, docs |-> DictSet(docs, doc)]

\* VectorStore.add
AddTo(docs, doc) ==
    IF doc.embedding = <<>>
    THEN [raised |-> TRUE, docs |-> docs]
    ELSE [raised |-> FALSE, docs |-> DictSet(docs, doc)]

VsAdd ==
    /\ StoreFree
    /\ \E doc \in StoreDocs :
        /\ Len(AddTo(vsDocs, doc).docs) <= MaxDocs
        /\ vsDocs' = AddTo(vsDocs, doc).docs
        /\ vsInserted' = IF AddTo(vsDocs, doc).raised THEN vsInserted
                         ELSE InsertedAfterAdd(doc)
        /\ vsOp' = [VsNoOp EXCEPT !.name = "add", !.doc = doc,
                                  !.raised = AddTo(vsDocs, doc).raised,
                                  !.before = vsDocs]
    /\ vsReload' = NoReload
    /\ UNCHANGED <<guardVars, chatVars, beVars, gemVars, chunkVars, syncVars, indexVars, startVars, addVars>>

RECURSIVE AddManyTo_unchecked(_, _)
AddManyTo_unchecked(docs, list) ==
    IF list = <<>> THEN [raised |-> FALSE, docs |-> docs]
    ELSE AddManyTo_unchecked(DictSet(docs, Head(list)), Tail(list))

RECURSIVE AddManyTo(_, _)
\* VectorStore.add_many: add for each document of the list, up to the first
\* one add refuses
AddManyTo(docs, list) ==
    IF list = <<>> THEN [raised |-> FALSE, docs |-> docs]
    ELSE IF AddTo(docs, Head(list)).raised THEN [raised |-> TRUE, docs |-> docs]
    ELSE AddManyTo(AddTo(docs, Head(list)).docs, Tail(list))

\* the lists add_many may be handed: chunks with and without an embedding,
\* of one id or of two
StoreDocLists ==
    UNION { [1..n -> [id : {"a", "b"}, embedding : { <<>>, <<3, 4>> },
                      category : {"x"}]] : n \in 0..MaxDocs }

VsAddMany ==
    /\ StoreFree
    /\ \E list \in StoreDocLists :
        LET added == AddManyTo(vsDocs, list)
        IN  /\ Len(added.docs) <= MaxDocs
            /\ vsDocs' = added.docs
            /\ vsInserted' =
                  vsInserted \o
                  SelectSeq([i \in 1..Len(added.docs) |-> added.docs[i].id],
                            LAMBDA x : \A i \in 1..Len(vsInserted) : vsInserted[i] # x)
            /\ vsOp' = [VsNoOp EXCEPT !.name = "add_many", !.doc = list,
                                      !.raised = added.raised,
                                      !.before = vsDocs]
    /\ vsReload' = NoReload
    /\ UNCHANGED <<guardVars, chatVars, beVars, gemVars, chunkVars, syncVars, indexVars, startVars, addVars>>

\* VectorStore.delete
VsDelete ==
    /\ StoreFree
    /\ \E doc_id \in StoreIds :
        /\ vsDocs' = DictPop(vsDocs, doc_id)
        /\ vsInserted' = SelectSeq(vsInserted, LAMBDA x : x # doc_id)
        /\ vsOp' = [VsNoOp EXCEPT !.name = "delete", !.doc = doc_id,
                                  !.result = (vsDocs # DictPop(vsDocs, doc_id)),
                                  !.before = vsDocs]
    /\ vsReload' = NoReload
    /\ UNCHANGED <<guardVars, chatVars, beVars, gemVars, chunkVars, syncVars, indexVars, startVars, addVars>>

\* VectorStore.clear
VsClear ==
    /\ StoreFree
    /\ vsDocs # <<>>
    /\ vsDocs' = <<>>
    /\ vsInserted' = <<>>
    /\ vsOp' = [VsNoOp EXCEPT !.name = "clear", !.before = vsDocs]
    /\ vsReload' = NoReload
    /\ UNCHANGED <<guardVars, chatVars, beVars, gemVars, chunkVars, syncVars, indexVars, startVars, addVars>>

\* the outcome of VectorStore.search
SearchOp(query) ==
    IF ScanRaises(vsDocs, query.embedding, query.category)
    THEN [VsNoOp EXCEPT !.name = "search", !.query = query, !.raised = TRUE,
                        !.before = vsDocs]
    ELSE [VsNoOp EXCEPT !.name = "search", !.query = query,
                        !.result = Search(vsDocs, query.embedding, query.limit,
                                          query.threshold, query.category),
                        !.before = vsDocs]

Queries ==
    [embedding : QueryEmbeddings, limit : 0..MaxLimit, threshold : Thresholds,
     category : {"x", NoCategory}]

VsSearch ==
    /\ StoreFree
    /\ \E query \in Queries : vsOp' = SearchOp(query)
    /\ vsReload' = NoReload
    /\ UNCHANGED <<vsDocs, vsInserted>>
    /\ UNCHANGED <<guardVars, chatVars, beVars, gemVars, chunkVars, syncVars, indexVars, startVars, addVars>>

\* after a search: clear(), the chunks all_documents() listed kept to be
\* added again
VsReloadClear ==
    /\ vsReload.phase = "idle"
    /\ vsOp.name = "search"
    /\ vsDocs # <<>>
    /\ vsReload' = [phase |-> "adding", todo |-> vsDocs, query |-> vsOp.query,
                    ranked |-> [raised |-> vsOp.raised, result |-> vsOp.result]]
    /\ vsDocs' = <<>>
    /\ vsInserted' = <<>>
    /\ vsOp' = [VsNoOp EXCEPT !.name = "clear", !.before = vsDocs]
    /\ UNCHANGED <<guardVars, chatVars, beVars, gemVars, chunkVars, syncVars, indexVars, startVars, addVars>>

\* the next chunk is added again
VsReloadAdd ==
    /\ vsReload.phase = "adding"
    /\ vsReload.todo # <<>>
    /\ vsDocs' = AddTo(vsDocs, Head(vsReload.todo)).docs
    /\ vsInserted' = InsertedAfterAdd(Head(vsReload.todo))
    /\ vsOp' = [VsNoOp EXCEPT !.name = "add", !.doc = Head(vsReload.todo),
                              !.raised = AddTo(vsDocs, Head(vsReload.todo)).raised,
                              !.before = vsDocs]
    /\ vsReload' = [vsReload EXCEPT !.todo = Tail(@)]
    /\ UNCHANGED <<guardVars, chatVars, beVars, gemVars, chunkVars, syncVars, indexVars, startVars, addVars>>

\* every chunk is added again: the search is repeated
VsReloadSearch ==
    /\ vsReload.phase = "adding"
    /\ vsReload.todo = <<>>
    /\ vsOp' = SearchOp(vsReload.query)
    /\ vsReload' = [vsReload EXCEPT !.phase = "done"]
    /\ UNCHANGED <<vsDocs, vsInserted>>
    /\ UNCHANGED <<guardVars, chatVars, beVars, gemVars, chunkVars, syncVars, indexVars, startVars, addVars>>

StoreNext ==
    \/ VsAdd
    \/ VsAddMany
    \/ VsDelete
    \/ VsClear
    \/ VsSearch
    \/ VsReloadClear
    \/ VsReloadAdd
    \/ VsReloadSearch

----------------------------------------------------------------------------
(* ai-model/app/document_processor.py: cleaning and chunking               *)

MaxContentLen == 5
SentenceLen == 300
ManyCount == 10
SmallChunkSize == 3

ChunkAlphabet == {"a", ".", " ", "\n"}

\* the end of a sentence for chunk_by_sentences: a character of [.!?\n]
Terminators == {".", "!", "?", "\n"}

IsTerminator(c) == c \in Terminators

\* the k-th smallest member of a set of positions
NthOf(S, k) == CHOOSE i \in S : Cardinality({j \in S : j < i}) = k - 1

\* re.sub(r"\s+", " ", content): every maximal run of whitespace becomes
\* one space
CollapseWhitespace(s) ==
    LET marked == [i \in 1..Len(s) |->
                      IF ~IsSpace(s[i]) THEN s[i]
                      ELSE IF i > 1 /\ IsSpace(s[i - 1]) THEN "" ELSE " "]
    IN  SelectSeq(marked, LAMBDA c : c # "")

\* cleaned = re.sub(r"\s+", " ", content).strip()
Clean(content) == Strip(CollapseWhitespace(content))

\* re.findall(r"[^.!?\n]+[.!?\n]+", text): a match starts where a maximal
\* run of other characters starts, needs a terminator after that run and
\* takes the whole run of terminators; the search goes on behind the match
FindSentences(text) ==
    LET n == Len(text)
        terms == {i \in 1..n : IsTerminator(text[i])}
        endOfRun(i) == CHOOSE j \in i..n :
                           /\ j = n \/ IsTerminator(text[j + 1])
                           /\ \A m \in i..j : ~IsTerminator(text[m])
        endOfTerms(i) == CHOOSE j \in i..n :
                             /\ j = n \/ ~IsTerminator(text[j + 1])
                             /\ \A m \in i..j : IsTerminator(text[m])
        starts == {i \in 1..n :
                      /\ ~IsTerminator(text[i])
                      /\ i = 1 \/ IsTerminator(text[i - 1])
                      /\ endOfRun(i) < n}
    IN  [k \in 1..Cardinality(starts) |->
            SubSeq(text, NthOf(starts, k), endOfTerms(endOfRun(NthOf(starts, k)) + 1))]

RECURSIVE PackFrom(_, _, _, _, _)
\* the loop of chunk_by_sentences over sentences[k..], then the last chunk
PackFrom(sentences, k, current, chunks, size) ==
    IF k > Len(sentences)
    THEN IF Strip(current) # <<>> THEN Append(chunks, Strip(current)) ELSE chunks
    ELSE IF Len(current) + Len(sentences[k]) > size /\ current # <<>>
         THEN PackFrom(sentences, k + 1, sentences[k],
                       Append(chunks, Strip(current)), size)
         ELSE PackFrom(sentences, k + 1, current \o sentences[k], chunks, size)

chunk_by_sentences_truncated(text, size) ==
    LET found == FindSentences(text)
        sentences == IF found = <<>> THEN <<text>> ELSE found
        chunks == PackFrom(sentences, 1, <<>>, <<>>, size)
    IN  [i \in 1..Len(chunks) |->
            SubSeq(chunks[i], 1, IF size < Len(chunks[i]) THEN size ELSE Len(chunks[i]))]

chunk_by_sentences_no_fallback(text, size) ==
    PackFrom(FindSentences(text), 1, <<>>, <<>>, size)

\* DocumentProcessor.chunk_by_sentences
chunk_by_sentences(text, size) ==
    LET found == FindSentences(text)
        sentences == IF found = <<>> THEN <<text>> ELSE found
    IN  PackFrom(sentences, 1, <<>>, <<>>, size)

Digits == <<"0", "1", "2", "3", "4", "5", "6", "7", "8", "9">>

RECURSIVE Str(_)
\* str(n) of a natural number: its decimal digits
Str(n) ==
    IF n < 10 THEN <<Digits[n + 1]>>
    ELSE Str(n \div 10) \o <<Digits[(n % 10) + 1]>>

\* metadata.get("title", "untitled")
TitleOf(metadata) ==
    IF "title" \in DOMAIN metadata THEN metadata["title"]
    ELSE <<"u","n","t","i","t","l","e","d">>

ChunkId_last_digit(title, idx) ==
    title \o <<"-","c","h","u","n","k","-">> \o <<Digits[(idx % 10) + 1]>>

\* f"{title}-chunk-{idx}"
ChunkId(title, idx) == title \o <<"-","c","h","u","n","k","-">> \o Str(idx)

\* {**metadata, "chunk_index": idx, "total_chunks": len(chunks)}
ChunkMetadata(metadata, idx, total) ==
    [key \in DOMAIN metadata \cup {"chunk_index", "total_chunks"} |->
        IF key = "chunk_index" THEN idx
        ELSE IF key = "total_chunks" THEN total
        ELSE metadata[key]]

\* DocumentProcessor.process: the chunk dicts, idx counted from 0
ProcessDocs(content, metadata, size) ==
    LET chunks == chunk_by_sentences(Clean(content), size)
    IN  [i \in 1..Len(chunks) |->
            [id |-> ChunkId(TitleOf(metadata), i - 1),
             content |-> chunks[i],
             metadata |-> ChunkMetadata(metadata, i - 1, Len(chunks))]]

RECURSIVE TextsUpTo(_)
\* the texts of at most n characters of the alphabet
TextsUpTo(n) ==
    IF n = 0 THEN { <<>> }
    ELSE LET shorter == TextsUpTo(n - 1)
         IN  shorter \cup {Append(s, c) : s \in shorter, c \in ChunkAlphabet}

\* a sentence of SentenceLen letters and its full stop
LongSentence == [i \in 1..(SentenceLen + 1) |-> IF i <= SentenceLen THEN "a" ELSE "."]

\* three long sentences, two spaces between the last two
LongContent == LongSentence \o <<" ">> \o LongSentence \o <<" ", " ">> \o LongSentence

\* ManyCount + 1 sentences of one letter, a space between two of them
ManyContent == [i \in 1..(3 * ManyCount + 2) |->
                   IF i % 3 = 1 THEN "a" ELSE IF i % 3 = 2 THEN "." ELSE " "]

Contents == TextsUpTo(MaxContentLen) \cup {LongContent, ManyContent}

\* a metadata dict with a title, and one without
Metadatas == { [title |-> <<"T">>], [category |-> <<"x">>] }

\* the arguments DocumentProcessor is constructed with: those of RAGConfig
\* and small ones, the overlap below the size or not
ChunkConfigs == [chunk_size : {SmallChunkSize, chunk_size},
                 chunk_overlap : {SmallChunkSize, chunk_overlap}]

\* no DocumentProcessor constructed yet
ChunkStart ==
    /\ ckContent = <<>>
    /\ ckMetadata = NoMetadata
    /\ ckSize = 0
    /\ ckOverlap = 0
    /\ ckPc = "new"
    /\ ckDocs = <<>>
    /\ ckPrev = <<>>

\* whether DocumentProcessor.__init__ raises for these arguments: it holds
\* two assignments and no test
InitRaises(config) == FALSE

\* DocumentProcessor(chunk_size, chunk_overlap)
ChunkConstruct ==
    /\ ckPc = "new"
    /\ \E config \in ChunkConfigs :
          IF InitRaises(config)
          THEN /\ ckPc' = "config_error"
               /\ UNCHANGED <<ckSize, ckOverlap>>
          ELSE /\ ckSize' = config.chunk_size
               /\ ckOverlap' = config.chunk_overlap
               /\ ckPc' = "built"
    /\ UNCHANGED <<ckContent, ckMetadata, ckDocs, ckPrev>>
    /\ UNCHANGED <<guardVars, chatVars, beVars, gemVars, storeVars, syncVars, indexVars, startVars, addVars>>

\* doc_processor.process(content, metadata)
ChunkProcess ==
    /\ ckPc = "built"
    /\ \E content \in Contents, metadata \in Metadatas :
          /\ ckContent' = content
          /\ ckMetadata' = metadata
          /\ ckDocs' = ProcessDocs(content, metadata, ckSize)
    /\ ckPc' = "done"
    /\ UNCHANGED <<ckSize, ckOverlap, ckPrev>>
    /\ UNCHANGED <<guardVars, chatVars, beVars, gemVars, storeVars, syncVars, indexVars, startVars, addVars>>

\* doc_processor.process called on the same document again
ChunkProcessAgain ==
    /\ ckPc = "done"
    /\ ckPrev' = ckDocs
    /\ ckDocs' = ProcessDocs(ckContent, ckMetadata, ckSize)
    /\ ckPc' = "again"
    /\ UNCHANGED <<ckContent, ckMetadata, ckSize, ckOverlap>>
    /\ UNCHANGED <<guardVars, chatVars, beVars, gemVars, storeVars, syncVars, indexVars, startVars, addVars>>

ChunkNext ==
    \/ ChunkConstruct
    \/ ChunkProcess
    \/ ChunkProcessAgain

----------------------------------------------------------------------------
(* ai-model/main.py: POST /api/chat/sync                                   *)

\* req.messages[-1].content
SyUserMessage == syReq.messages[Len(syReq.messages)].content

\* the texts ollama_client.chat may return
SyncAnswers == { <<>>, TokenText }

\* {"response": ..., "sources": ..., "metadata": rag_service.stats()}
ResponseObject(text, sources) ==
    [response |-> text, sources |-> sources,
     metadata |-> [total_chunks |-> Len(vsDocs)]]

SyncStart ==
    /\ syReq \in ChatRequests
    /\ syPc = "start"
    /\ syStatus = 0
    /\ syBody = <<>>
    /\ sySources = <<>>
    /\ syPrompt = "base"

\* if not req.messages: raise HTTPException(400)
SyBadRequest ==
    /\ syPc = "start"
    /\ syReq.messages = <<>>
    /\ syStatus' = 400
    /\ syPc' = "rejected"
    /\ UNCHANGED <<syReq, syBody, sySources, syPrompt>>
    /\ UNCHANGED <<guardVars, chatVars, beVars, gemVars, storeVars, chunkVars, indexVars, startVars, addVars>>

\* if not is_bits_related(user_message): return the fixed reply
SyGuardReject ==
    /\ syPc = "start"
    /\ syReq.messages # <<>>
    /\ ~is_bits_related(SyUserMessage)
    /\ syStatus' = 200
    /\ syBody' = <<ResponseObject(OUT_OF_SCOPE_REPLY, <<>>)>>
    /\ syPc' = "responded"
    /\ UNCHANGED <<syReq, sySources, syPrompt>>
    /\ UNCHANGED <<guardVars, chatVars, beVars, gemVars, storeVars, chunkVars, indexVars, startVars, addVars>>

\* if req.use_rag: await rag_service.build_context(user_message, ...)
SyRetrieve ==
    /\ syPc = "start"
    /\ syReq.messages # <<>>
    /\ is_bits_related(SyUserMessage)
    /\ syReq.use_rag
    /\ syPc' = "retrieving"
    /\ UNCHANGED <<syReq, syStatus, syBody, sySources, syPrompt>>
    /\ UNCHANGED <<guardVars, chatVars, beVars, gemVars, storeVars, chunkVars, indexVars, startVars, addVars>>

\* build_context returned; the context text is empty exactly when there are
\* no sources
SyRetrieveReturn ==
    /\ syPc = "retrieving"
    /\ \E sources \in SourceLists :
        /\ sySources' = sources
        /\ syPrompt' = IF sources # <<>> THEN "rag" ELSE "base"
    /\ syPc' = "generating"
    /\ UNCHANGED <<syReq, syStatus, syBody>>
    /\ UNCHANGED <<guardVars, chatVars, beVars, gemVars, storeVars, chunkVars, indexVars, startVars, addVars>>

\* except Exception: logger.warning("RAG retrieval failed")
SyRetrieveRaise ==
    /\ syPc = "retrieving"
    /\ syPc' = "generating"
    /\ UNCHANGED <<syReq, syStatus, syBody, sySources, syPrompt>>
    /\ UNCHANGED <<guardVars, chatVars, beVars, gemVars, storeVars, chunkVars, indexVars, startVars, addVars>>

\* use_rag is false: no retrieval
SySkipRag ==
    /\ syPc = "start"
    /\ syReq.messages # <<>>
    /\ is_bits_related(SyUserMessage)
    /\ ~syReq.use_rag
    /\ syPc' = "generating"
    /\ UNCHANGED <<syReq, syStatus, syBody, sySources, syPrompt>>
    /\ UNCHANGED <<guardVars, chatVars, beVars, gemVars, storeVars, chunkVars, indexVars, startVars, addVars>>

\* response_text = await ollama_client.chat(ollama_messages); return {...}
SyChatReturn ==
    /\ syPc = "generating"
    /\ \E text \in SyncAnswers :
        syBody' = <<ResponseObject(text, sySources)>>
    /\ syStatus' = 200
    /\ syPc' = "responded"
    /\ UNCHANGED <<syReq, sySources, syPrompt>>
    /\ UNCHANGED <<guardVars, chatVars, beVars, gemVars, storeVars, chunkVars, indexVars, startVars, addVars>>

\* ollama_client.chat raises (the request fails, raise_for_status, or the
\* answer has no message): nothing in chat_sync catches it, the handler ends
\* with the exception and the framework answers 500
SyChatRaise ==
    /\ syPc = "generating"
    /\ syStatus' = 500
    /\ syPc' = "aborted"
    /\ UNCHANGED <<syReq, syBody, sySources, syPrompt>>
    /\ UNCHANGED <<guardVars, chatVars, beVars, gemVars, storeVars, chunkVars, indexVars, startVars, addVars>>

SyncNext ==
    \/ SyBadRequest
    \/ SyGuardReject
    \/ SyRetrieve
    \/ SyRetrieveReturn
    \/ SyRetrieveRaise
    \/ SySkipRag
    \/ SyChatReturn
    \/ SyChatRaise

----------------------------------------------------------------------------
(* ai-model/app/rag_service.py: the index build and a query beside it      *)
(*                                                                         *)
(* A coroutine runs without interruption from one await to the next, so an *)
(* action is the code between two awaits.  The embedding provider answers  *)
(* with vectors of one length, as one embedding model does.                *)

MaxIndexDocs == 2

\* RAGConfig.max_retrieval_docs, RAGConfig.similarity_threshold in hundredths
max_retrieval_docs == 5
similarity_threshold == 30

\* a text of one sentence, and one of two sentences that do not fit into one
\* chunk of chunk_size
ShortText == <<"a", ".">>
TwoLong == LongSentence \o <<" ">> \o LongSentence

\* the documents initialize may be handed: {"content": ..., "metadata": ...}
IndexDocs == [content : { <<>>, ShortText, TwoLong }, metadata : Metadatas]

IndexDocLists ==
    UNION { [1..n -> IndexDocs] : n \in 0..MaxIndexDocs }

\* what generate_embedding may return for a chunk, and for a query
ChunkVectors == { <<>>, <<1, 0>>, <<3, 4>> }
QueryVectors == { <<3, 4>>, <<0, 0>> }

\* a chunk the index held before initialize is called
OldDocument ==
    [id |-> <<"o","l","d">>, content |-> ShortText, embedding |-> <<3, 4>>,
     category |-> <<>>]

\* Document(id=chunk["id"], content=chunk["content"], metadata=chunk["metadata"],
\* embedding=emb); of the metadata, the category
Document(chunk, emb) ==
    [id |-> chunk.id, content |-> chunk.content, embedding |-> emb,
     category |-> IF "category" \in DOMAIN chunk.metadata
                  THEN chunk.metadata["category"] ELSE <<>>]

\* chunks = doc_processor.process(doc_data["content"], doc_data["metadata"])
\* for every document of the list; process depends on nothing else
ChunksOf(documents) ==
    [d \in 1..Len(documents) |->
        ProcessDocs(documents[d].content, documents[d].metadata, chunk_size)]

NoChunk == [doc |-> 0, chunk |-> 0]

RECURSIVE FirstChunkFrom(_, _)
\* the loops of initialize from document d on: the first chunk there is
FirstChunkFrom(chunks, d) ==
    IF d > Len(chunks) THEN NoChunk
    ELSE IF chunks[d] # <<>> THEN [doc |-> d, chunk |-> 1]
    ELSE FirstChunkFrom(chunks, d + 1)

\* the chunk the loops of initialize come to after the chunk at
NextChunk(chunks, at) ==
    IF at.chunk < Len(chunks[at.doc])
    THEN [doc |-> at.doc, chunk |-> at.chunk + 1]
    ELSE FirstChunkFrom(chunks, at.doc + 1)

\* RAGService._to_source
ToSources(results) ==
    [i \in 1..Len(results) |->
        [id |-> results[i].document.id,
         content |-> results[i].document.content,
         similarity |-> results[i].similarity]]

\* build_context: one block per source, "" when there is no source
ContextText(sources) ==
    [i \in 1..Len(sources) |-> [idx |-> i, content |-> sources[i].content]]

\* the ids of an index in the order of the dict
IdsInOrder(docs) == [i \in 1..Len(docs) |-> docs[i].id]

\* the index holds what an earlier load left, nothing or one chunk
IndexStart ==
    /\ vsDocs \in { <<>>, <<OldDocument>> }
    /\ vsInserted = IdsInOrder(vsDocs)
    /\ vsOp = VsNoOp
    /\ vsReload = NoReload
    /\ IndexIdle
    /\ StartIdle
    /\ AddIdle

\* initialize(documents) up to its first await, or to its return when no
\* document has a chunk
Initialize(documents) ==
    /\ ixPc = "idle"
    /\ ixDocuments' = documents
    /\ ixChunks' = ChunksOf(documents)
    /\ ixAt' = FirstChunkFrom(ixChunks', 1)
    /\ ixPc' = IF ixAt' = NoChunk THEN "returned" ELSE "embedding"
    /\ vsDocs' = <<>>
    /\ vsInserted' = <<>>
    /\ ixTotal' = 0
    /\ ixLog' = <<>>
    /\ UNCHANGED <<vsOp, vsReload, qPc, qSeen, qSources, qPrompt>>
    /\ UNCHANGED <<guardVars, chatVars, beVars, gemVars, chunkVars, syncVars, addVars>>

\* initialize called with a list of documents
IxBegin ==
    /\ \E documents \in IndexDocLists : Initialize(documents)
    /\ UNCHANGED startVars

\* generate_embedding returned for the chunk: vector_store.add, whose
\* ValueError for an empty embedding the except clause catches; then on to
\* the next await or to the return
IxEmbedReturn ==
    /\ ixPc = "embedding"
    /\ \E emb \in ChunkVectors :
        LET added == AddTo(vsDocs, Document(ixChunks[ixAt.doc][ixAt.chunk], emb))
        IN  /\ vsDocs' = added.docs
            /\ vsInserted' = IF added.raised THEN vsInserted
                             ELSE InsertedAfterAdd(ixChunks[ixAt.doc][ixAt.chunk])
            /\ ixTotal' = IF added.raised THEN ixTotal ELSE ixTotal + 1
            /\ ixLog' = Append(ixLog, [at |-> ixAt, embedding |-> emb,
                                       embedded |-> TRUE, added |-> ~added.raised])
    /\ ixAt' = NextChunk(ixChunks, ixAt)
    /\ ixPc' = IF ixAt' = NoChunk THEN "returned" ELSE "embedding"
    /\ UNCHANGED <<ixDocuments, ixChunks, vsOp, vsReload, qPc, qSeen, qSources, qPrompt>>
    /\ UNCHANGED <<guardVars, chatVars, beVars, gemVars, chunkVars, syncVars, startVars, addVars>>

\* generate_embedding raised for the chunk: logged, the chunk is skipped
IxEmbedFail ==
    /\ ixPc = "embedding"
    /\ ixLog' = Append(ixLog, [at |-> ixAt, embedding |-> <<>>,
                               embedded |-> FALSE, added |-> FALSE])
    /\ ixAt' = NextChunk(ixChunks, ixAt)
    /\ ixPc' = IF ixAt' = NoChunk THEN "returned" ELSE "embedding"
    /\ UNCHANGED <<ixDocuments, ixChunks, ixTotal, storeVars, qPc, qSeen, qSources, qPrompt>>
    /\ UNCHANGED <<guardVars, chatVars, beVars, gemVars, chunkVars, syncVars, startVars, addVars>>

\* a chat request calls build_context, retrieve awaits the query's embedding
QStart ==
    /\ qPc = "idle"
    /\ qPc' = "embedding"
    /\ UNCHANGED <<ixDocuments, ixPc, ixChunks, ixAt, ixTotal, ixLog, qSeen, qSources, qPrompt>>
    /\ UNCHANGED <<guardVars, chatVars, beVars, gemVars, storeVars, chunkVars, syncVars, startVars, addVars>>

QEmbedReturn_empty_raises ==
    /\ qPc = "embedding"
    /\ \E emb \in QueryVectors :
        IF vsDocs = <<>> \/ ScanRaises(vsDocs, emb, NoCategory)
        THEN /\ qPc' = "search_failed"
             /\ UNCHANGED <<qSources, qPrompt>>
        ELSE LET sources == ToSources(Search(vsDocs, emb, max_retrieval_docs,
                                             similarity_threshold, NoCategory))
             IN  /\ qPc' = "answered"
                 /\ qSources' = sources
                 /\ qPrompt' = IF sources # <<>> THEN "rag" ELSE "base"
    /\ qSeen' = vsDocs
    /\ UNCHANGED <<ixDocuments, ixPc, ixChunks, ixAt, ixTotal, ixLog>>
    /\ UNCHANGED <<guardVars, chatVars, beVars, gemVars, storeVars, chunkVars, syncVars, startVars, addVars>>

\* the query's embedding returned: vector_store.search on the index as it is
\* now, build_context, and the handler's choice of the system prompt; a
\* ValueError of the search is caught by the handler like any retrieval error
QEmbedReturn ==
    /\ qPc = "embedding"
    /\ \E emb \in QueryVectors :
        IF ScanRaises(vsDocs, emb, NoCategory)
        THEN /\ qPc' = "search_failed"
             /\ UNCHANGED <<qSources, qPrompt>>
        ELSE LET sources == ToSources(Search(vsDocs, emb, max_retrieval_docs,
                                             similarity_threshold, NoCategory))
             IN  /\ qPc' = "answered"
                 /\ qSources' = sources
                 /\ qPrompt' = IF sources # <<>> THEN "rag" ELSE "base"
    /\ qSeen' = vsDocs
    /\ UNCHANGED <<ixDocuments, ixPc, ixChunks, ixAt, ixTotal, ixLog>>
    /\ UNCHANGED <<guardVars, chatVars, beVars, gemVars, storeVars, chunkVars, syncVars, startVars, addVars>>

\* the query's embedding raised: the handler logs "RAG retrieval failed" and
\* goes on with SYSTEM_PROMPT and no sources
QEmbedFail ==
    /\ qPc = "embedding"
    /\ qPc' = "failed"
    /\ qSeen' = vsDocs
    /\ UNCHANGED <<ixDocuments, ixPc, ixChunks, ixAt, ixTotal, ixLog, qSources, qPrompt>>
    /\ UNCHANGED <<guardVars, chatVars, beVars, gemVars, storeVars, chunkVars, syncVars, startVars, addVars>>

\* CAMPUS_DOCUMENTS: documents with a title each, no title twice; here two
\* of them, of two chunks and of one
CampusDocuments ==
    << [content |-> TwoLong,
        metadata |-> [title |-> <<"T">>, category |-> <<"x">>]],
       [content |-> ShortText,
        metadata |-> [title |-> <<"U">>, category |-> <<"y">>]] >>

\* POST /api/knowledge/reload: load_knowledge_base calls
\* rag_service.initialize(CAMPUS_DOCUMENTS)
ReloadBegin ==
    /\ Initialize(CampusDocuments)
    /\ UNCHANGED startVars

\* the documents add_document may be handed: of one chunk or of two, under a
\* title of its own or under the title of a campus document
AddDocs ==
    [content : {ShortText, TwoLong},
     metadata : {[title |-> <<"N">>, category |-> <<"x">>],
                 [title |-> <<"T">>, category |-> <<"x">>]}]

\* add_document up to its first await, or to its return when process gives
\* no chunk
AdBegin ==
    /\ adPc = "idle"
    /\ \E doc \in AddDocs :
        adChunks' = ProcessDocs(doc.content, doc.metadata, chunk_size)
    /\ adAt' = IF adChunks' = <<>> THEN 0 ELSE 1
    /\ adPc' = IF adChunks' = <<>> THEN "returned" ELSE "embedding"
    /\ adEmb' = <<>>
    /\ UNCHANGED <<guardVars, chatVars, beVars, gemVars, storeVars, chunkVars,
                   syncVars, indexVars, startVars>>

\* generate_embedding returned for the chunk: vector_store.add, whose
\* ValueError for an empty embedding nothing catches; then on to the next
\* await or to the return
AdEmbedReturn ==
    /\ adPc = "embedding"
    /\ \E emb \in ChunkVectors :
        LET added == AddTo(vsDocs, Document(adChunks[adAt], emb))
        IN  IF added.raised
            THEN /\ adPc' = "raised"
                 /\ UNCHANGED <<vsDocs, vsInserted, adAt, adEmb>>
            ELSE /\ vsDocs' = added.docs
                 /\ vsInserted' = InsertedAfterAdd(adChunks[adAt])
                 /\ adEmb' = Append(adEmb, emb)
                 /\ adAt' = IF adAt < Len(adChunks) THEN adAt + 1 ELSE adAt
                 /\ adPc' = IF adAt < Len(adChunks) THEN "embedding" ELSE "returned"
    /\ UNCHANGED <<vsOp, vsReload, adChunks>>
    /\ UNCHANGED <<guardVars, chatVars, beVars, gemVars, chunkVars, syncVars,
                   indexVars, startVars>>

\* generate_embedding raised for the chunk: add_document raises
AdEmbedRaise ==
    /\ adPc = "embedding"
    /\ adPc' = "raised"
    /\ UNCHANGED <<adChunks, adAt, adEmb>>
    /\ UNCHANGED <<guardVars, chatVars, beVars, gemVars, storeVars, chunkVars,
                   syncVars, indexVars, startVars>>

\* the lifespan has come to its yield: the application serves requests.
\* load_knowledge_base runs on from the return of initialize to the yield
\* without an await
StartupComplete ==
    \/ stPc = "skipped"
    \/ stPc = "loading" /\ ixPc = "returned"

\* lifespan: health_check returned False (it catches every exception of
\* its request): the warning is logged, nothing is loaded
StHealthDown ==
    /\ stPc = "start"
    /\ stHealthy' = FALSE
    /\ stPc' = "skipped"
    /\ UNCHANGED <<hPc, hOk, hResp>>
    /\ UNCHANGED <<guardVars, chatVars, beVars, gemVars, storeVars, chunkVars,
                   syncVars, indexVars, addVars>>

\* lifespan: health_check returned True: load_knowledge_base, up to the
\* first await of initialize
StHealthUp ==
    /\ stPc = "start"
    /\ stHealthy' = TRUE
    /\ stPc' = "loading"
    /\ Initialize(CampusDocuments)
    /\ UNCHANGED <<hPc, hOk, hResp>>

HealthStatus_by_models(ollama_ok, models) ==
    IF models # <<>> THEN "healthy" ELSE "degraded"

\* status="healthy" if ollama_ok else "degraded"
HealthStatus(ollama_ok, models) ==
    IF ollama_ok THEN "healthy" ELSE "degraded"

\* the HealthResponse, with rag_service.stats()
HealthResponse(ollama_ok, models) ==
    [status |-> HealthStatus(ollama_ok, models),
     ollama_connected |-> ollama_ok,
     models_available |-> models,
     rag_documents |-> Len(vsDocs),
     rag_categories |-> {vsDocs[k].category : k \in 1..Len(vsDocs)}]

\* what list_models may return; [] also when its request fails
ModelLists == { <<>>, <<"m">> }

\* GET /api/health: health_check returned; without a connection the
\* response follows at once
HealthCheck ==
    /\ StartupComplete
    /\ hPc = "idle"
    /\ \E ollama_ok \in BOOLEAN :
        /\ hOk' = ollama_ok
        /\ IF ollama_ok
           THEN hPc' = "models" /\ hResp' = hResp
           ELSE hPc' = "responded" /\ hResp' = <<HealthResponse(FALSE, <<>>)>>
    /\ UNCHANGED <<stPc, stHealthy>>
    /\ UNCHANGED <<guardVars, chatVars, beVars, gemVars, storeVars, chunkVars,
                   syncVars, indexVars, addVars>>

\* GET /api/health: list_models returned, the response
HealthRespond ==
    /\ hPc = "models"
    /\ \E models \in ModelLists : hResp' = <<HealthResponse(hOk, models)>>
    /\ hPc' = "responded"
    /\ UNCHANGED <<stPc, stHealthy, hOk>>
    /\ UNCHANGED <<guardVars, chatVars, beVars, gemVars, storeVars, chunkVars,
                   syncVars, indexVars, addVars>>

\* POST /api/chat
ChatNext ==
    \/ ChatBadRequest
    \/ ChatGuardReject
    \/ ChatRetrieve
    \/ ChatRetrieveReturn
    \/ ChatRetrieveRaise
    \/ ChatSkipRag
    \/ OosYieldMeta
    \/ OosYieldWord
    \/ OosYieldDone
    \/ GenYieldMeta
    \/ OllamaOpen
    \/ OllamaOpenRaise
    \/ OllamaLineToken
    \/ OllamaLineSkipped
    \/ OllamaStreamRaise
    \/ OllamaStreamEnd
    \/ GenYieldDone

\* a chat request is served once the lifespan has come to its yield
StChat == StartupComplete /\ ChatNext

\* the chat requests that follow the startup: without messages, out of
\* scope, and on a topic of the campus with and without retrieval
StartupRequests ==
    {[messages |-> <<>>, use_rag |-> TRUE]}
    \cup {[messages |-> <<[role |-> "user", content |-> q]>>, use_rag |-> u] :
            q \in {ExampleQuery, ChatQuery(2, TRUE)}, u \in BOOLEAN}

\* the process starts: nothing in the index, the lifespan at its beginning
StartupStart ==
    /\ stPc = "start"
    /\ stHealthy = FALSE
    /\ hPc = "idle"
    /\ hOk = FALSE
    /\ hResp = <<>>

StartupNext ==
    \/ StHealthDown
    \/ StHealthUp
    \/ IxEmbedReturn
    \/ IxEmbedFail
    \/ HealthCheck
    \/ HealthRespond
    \/ StChat

\* a reload and a call of add_document side by side
ReloadNext ==
    \/ ReloadBegin
    \/ IxEmbedReturn
    \/ IxEmbedFail
    \/ AdBegin
    \/ AdEmbedReturn
    \/ AdEmbedRaise

IndexNext ==
    \/ IxBegin
    \/ IxEmbedReturn
    \/ IxEmbedFail
    \/ QStart
    \/ QEmbedReturn
    \/ QEmbedFail

----------------------------------------------------------------------------
(* The two applications serve one request each                             *)

GuardIdle ==
    /\ gQuery = <<>>
    /\ gPc = "idle"
    /\ gResult = FALSE

GemIdle ==
    /\ gmKey = FALSE
    /\ gmScript = <<>>
    /\ gs = <<>>
    /\ gc = <<>>

Init ==
    /\ GuardIdle
    /\ GemIdle
    /\ StoreIdle
    /\ ChunkIdle
    /\ SyncIdle
    /\ IndexIdle
    /\ StartIdle
    /\ AddIdle
    /\ \/ ChatInit /\ BeIdle
       \/ BeInit

Next ==
    \/ ChatBadRequest
    \/ ChatGuardReject
    \/ ChatRetrieve
    \/ ChatRetrieveReturn
    \/ ChatRetrieveRaise
    \/ ChatSkipRag
    \/ OosYieldMeta
    \/ OosYieldWord
    \/ OosYieldDone
    \/ GenYieldMeta
    \/ OllamaOpen
    \/ OllamaOpenRaise
    \/ OllamaLineToken
    \/ OllamaLineSkipped
    \/ OllamaStreamRaise
    \/ OllamaStreamEnd
    \/ GenYieldDone
    \/ BeBadRequest
    \/ BeHandlerRaise
    \/ BeAccept
    \/ BeConfigError
    \/ BeGather
    \/ BeVectorReturn
    \/ BeVectorFail
    \/ BeSqlReturn
    \/ BeSqlFail
    \/ BeJoin
    \/ BeAnalystNoContext
    \/ BeAnalystReply
    \/ BeAnalystFail
    \/ BeArtifacts
    \/ BeYieldMeta
    \/ FinalizerNoKey
    \/ FinalizerHistoryRaise
    \/ FinalizerOpen
    \/ FinalizerOpenRaise
    \/ FinalizerLineText
    \/ FinalizerLineSkipped
    \/ FinalizerStreamRaise
    \/ FinalizerStreamEnd
    \/ BeYieldDone

Spec == Init /\ [][Next]_vars

----------------------------------------------------------------------------
(* The guard applied to bounded queries: up to GuardMaxWords words of the  *)
(* vocabulary, joined by one of the separators and padded or not.          *)

GuardMaxWords == 7

GuardVocabulary ==
    { <<"o","f">>,                              \* no keyword
      <<"c","a","p","i","t","a","l">>,          \* holds "ta" inside a word
      <<"L","a","b">> }                         \* the keyword "lab", capitalised

GuardSeparators == { <<" ">>, <<" ", "\n">> }

GuardPaddings == { <<>>, <<" ">> }

GuardQueries ==
    UNION { { pad \o JoinWith(ws, sep) \o pad :
                ws \in [1..n -> GuardVocabulary],
                sep \in GuardSeparators,
                pad \in GuardPaddings } : n \in 0..GuardMaxWords }

GuardInit ==
    /\ gQuery \in GuardQueries
    /\ gPc = "ready"
    /\ gResult = FALSE
    /\ ChatIdle
    /\ BeIdle
    /\ GemIdle
    /\ StoreIdle
    /\ ChunkIdle
    /\ SyncIdle
    /\ IndexIdle
    /\ StartIdle
    /\ AddIdle

GuardCheck ==
    /\ gPc = "ready"
    /\ gResult' = is_bits_related(gQuery)
    /\ gPc' = "checked"
    /\ UNCHANGED <<storeVars, chunkVars, gQuery, chatVars, beVars, gemVars, syncVars, indexVars, startVars, addVars>>

GuardNext == GuardCheck

SpecGuard == GuardInit /\ [][GuardNext]_vars

----------------------------------------------------------------------------
(* ai-model/app/gemini_client.py: generation with model fallback           *)

\* len(GENERATION_MODELS)
NumModels == 3

GmMaxLines == 1     \* data lines of one model's streamed answer, at most

\* What one model answers: a status other than 200 ("status"), no answer at
\* all ("exception": connection failure, timeout), or 200 and then the lines
\* of the answer, each with text or without, after which the answer ends
\* ("end") or breaks off ("raise").  The synchronous endpoint of the model
\* answers alike: its text is empty unless a line carries text.
GmAnswers ==
    {[open |-> o, lines |-> <<>>, ending |-> "none"] : o \in {"status", "exception"}}
    \cup UNION { { [open |-> "ok", lines |-> l, ending |-> e] :
                      l \in [1..n -> {"text", "skip"}], e \in {"end", "raise"} } :
                 n \in 0..GmMaxLines }

NoError == [model |-> 0, kind |-> "none"]
NoKeyError == [model |-> 0, kind |-> "no_key"]
AllFailedError == [model |-> 0, kind |-> "all_failed"]
ModelError(m, kind) == [model |-> m, kind |-> kind]

\* raise last_error or RuntimeError("All Gemini models failed")
RaisedAfterLoop(last_error) ==
    IF last_error # NoError THEN last_error ELSE AllFailedError

GsStart ==
    [pc |-> "start", idx |-> 0, line |-> 0, attempts |-> <<>>, opened |-> {},
     ended |-> {}, out |-> <<>>, last_error |-> NoError, raised |-> NoError,
     selected |-> 0]

GcStart ==
    [pc |-> "start", idx |-> 0, attempts |-> <<>>, last_error |-> NoError,
     raised |-> NoError, selected |-> 0]

GemInit ==
    /\ gmKey \in BOOLEAN
    /\ gmScript \in [1..NumModels -> GmAnswers]
    /\ gs = GsStart
    /\ gc = GcStart

\* chat_stream: if not self.api_key: raise RuntimeError
GsNoKey ==
    /\ gs.pc = "start"
    /\ ~gmKey
    /\ gs' = [gs EXCEPT !.pc = "raised", !.raised = NoKeyError]
    /\ UNCHANGED <<storeVars, chunkVars, guardVars, chatVars, beVars, gmKey, gmScript, gc, syncVars, indexVars, startVars, addVars>>

\* chat_stream: the loop over GENERATION_MODELS starts
GsBegin ==
    /\ gs.pc = "start"
    /\ gmKey
    /\ gs' = [gs EXCEPT !.pc = "try", !.idx = 1]
    /\ UNCHANGED <<storeVars, chunkVars, guardVars, chatVars, beVars, gmKey, gmScript, gc, syncVars, indexVars, startVars, addVars>>

\* resp.status_code != 200: last_error = RuntimeError(...), the next model is
\* tried
GsTryStatus ==
    /\ gs.pc = "try" /\ gs.idx <= NumModels
    /\ gmScript[gs.idx].open = "status"
    /\ gs' = [gs EXCEPT !.attempts = Append(@, gs.idx),
                        !.last_error = ModelError(gs.idx, "RuntimeError"),
                        !.idx = @ + 1]
    /\ UNCHANGED <<storeVars, chunkVars, guardVars, chatVars, beVars, gmKey, gmScript, gc, syncVars, indexVars, startVars, addVars>>

\* the request raises: except Exception: last_error = exc; continue
GsTryException ==
    /\ gs.pc = "try" /\ gs.idx <= NumModels
    /\ gmScript[gs.idx].open = "exception"
    /\ gs' = [gs EXCEPT !.attempts = Append(@, gs.idx),
                        !.last_error = ModelError(gs.idx, "exception"),
                        !.idx = @ + 1]
    /\ UNCHANGED <<storeVars, chunkVars, guardVars, chatVars, beVars, gmKey, gmScript, gc, syncVars, indexVars, startVars, addVars>>

\* status 200: the lines of the answer are read
GsTryOpen ==
    /\ gs.pc = "try" /\ gs.idx <= NumModels
    /\ gmScript[gs.idx].open = "ok"
    /\ gs' = [gs EXCEPT !.attempts = Append(@, gs.idx),
                        !.opened = @ \cup {gs.idx},
                        !.pc = "lines",
                        !.line = 1]
    /\ UNCHANGED <<storeVars, chunkVars, guardVars, chatVars, beVars, gmKey, gmScript, gc, syncVars, indexVars, startVars, addVars>>

\* a data line with text: yield text
GsLineText ==
    /\ gs.pc = "lines"
    /\ gs.line <= Len(gmScript[gs.idx].lines)
    /\ gmScript[gs.idx].lines[gs.line] = "text"
    /\ gs' = [gs EXCEPT !.out = Append(@, gs.idx), !.line = @ + 1]
    /\ UNCHANGED <<storeVars, chunkVars, guardVars, chatVars, beVars, gmKey, gmScript, gc, syncVars, indexVars, startVars, addVars>>

\* a line that is no data line, is not JSON, or carries no text
GsLineSkipped ==
    /\ gs.pc = "lines"
    /\ gs.line <= Len(gmScript[gs.idx].lines)
    /\ gmScript[gs.idx].lines[gs.line] = "skip"
    /\ gs' = [gs EXCEPT !.line = @ + 1]
    /\ UNCHANGED <<storeVars, chunkVars, guardVars, chatVars, beVars, gmKey, gmScript, gc, syncVars, indexVars, startVars, addVars>>

AfterStreamEnd_if_text(yielded) ==
    IF yielded > 0 THEN "return" ELSE "continue"

\* "If we get here, streaming succeeded": return, whatever was yielded
AfterStreamEnd(yielded) == "return"

\* the fragments the current model has yielded
YieldedBy(m) == Len(SelectSeq(gs.out, LAMBDA x : x = m))

\* the answer ends
GsStreamEnd ==
    /\ gs.pc = "lines"
    /\ gs.line > Len(gmScript[gs.idx].lines)
    /\ gmScript[gs.idx].ending = "end"
    /\ IF AfterStreamEnd(YieldedBy(gs.idx)) = "return"
       THEN gs' = [gs EXCEPT !.ended = @ \cup {gs.idx},
                             !.selected = gs.idx,
                             !.pc = "returned"]
       ELSE gs' = [gs EXCEPT !.ended = @ \cup {gs.idx},
                             !.idx = @ + 1,
                             !.pc = "try"]
    /\ UNCHANGED <<storeVars, chunkVars, guardVars, chatVars, beVars, gmKey, gmScript, gc, syncVars, indexVars, startVars, addVars>>

\* the answer breaks off while it is read: except Exception: last_error = exc;
\* continue
GsStreamRaise ==
    /\ gs.pc = "lines"
    /\ gs.line > Len(gmScript[gs.idx].lines)
    /\ gmScript[gs.idx].ending = "raise"
    /\ gs' = [gs EXCEPT !.last_error = ModelError(gs.idx, "exception"),
                        !.idx = @ + 1,
                        !.pc = "try"]
    /\ UNCHANGED <<storeVars, chunkVars, guardVars, chatVars, beVars, gmKey, gmScript, gc, syncVars, indexVars, startVars, addVars>>

\* after the loop: raise last_error or RuntimeError(...)
GsExhausted ==
    /\ gs.pc = "try" /\ gs.idx > NumModels
    /\ gs' = [gs EXCEPT !.pc = "raised", !.raised = RaisedAfterLoop(gs.last_error)]
    /\ UNCHANGED <<storeVars, chunkVars, guardVars, chatVars, beVars, gmKey, gmScript, gc, syncVars, indexVars, startVars, addVars>>

GsFinished == gs.pc \in {"returned", "raised"}

\* chat: if not self.api_key: raise RuntimeError
GcNoKey ==
    /\ GsFinished
    /\ gc.pc = "start"
    /\ ~gmKey
    /\ gc' = [gc EXCEPT !.pc = "raised", !.raised = NoKeyError]
    /\ UNCHANGED <<storeVars, chunkVars, guardVars, chatVars, beVars, gmKey, gmScript, gs, syncVars, indexVars, startVars, addVars>>

\* chat: the loop over GENERATION_MODELS starts
GcBegin ==
    /\ GsFinished
    /\ gc.pc = "start"
    /\ gmKey
    /\ gc' = [gc EXCEPT !.pc = "try", !.idx = 1]
    /\ UNCHANGED <<storeVars, chunkVars, guardVars, chatVars, beVars, gmKey, gmScript, gs, syncVars, indexVars, startVars, addVars>>

\* whether the synchronous request to model m raises, and how
SyncRaises(m) ==
    gmScript[m].open # "ok" \/ gmScript[m].ending = "raise"

\* raise_for_status raises httpx.HTTPStatusError
SyncErrorKind(m) ==
    IF gmScript[m].open = "status" THEN "HTTPStatusError" ELSE "exception"

\* the text of the synchronous answer of model m is not empty
SyncHasText(m) ==
    \E i \in 1..Len(gmScript[m].lines) : gmScript[m].lines[i] = "text"

\* client.post or raise_for_status raises: last_error = exc; continue
GcTryError ==
    /\ gc.pc = "try" /\ gc.idx <= NumModels
    /\ SyncRaises(gc.idx)
    /\ gc' = [gc EXCEPT !.attempts = Append(@, gc.idx),
                        !.last_error = ModelError(gc.idx, SyncErrorKind(gc.idx)),
                        !.idx = @ + 1]
    /\ UNCHANGED <<storeVars, chunkVars, guardVars, chatVars, beVars, gmKey, gmScript, gs, syncVars, indexVars, startVars, addVars>>

\* if text: return text
GcTryText ==
    /\ gc.pc = "try" /\ gc.idx <= NumModels
    /\ ~SyncRaises(gc.idx)
    /\ SyncHasText(gc.idx)
    /\ gc' = [gc EXCEPT !.attempts = Append(@, gc.idx),
                        !.selected = gc.idx,
                        !.pc = "returned"]
    /\ UNCHANGED <<storeVars, chunkVars, guardVars, chatVars, beVars, gmKey, gmScript, gs, syncVars, indexVars, startVars, addVars>>

\* the text is empty: nothing is returned and nothing recorded, the loop
\* goes on to the next model
GcTryEmpty ==
    /\ gc.pc = "try" /\ gc.idx <= NumModels
    /\ ~SyncRaises(gc.idx)
    /\ ~SyncHasText(gc.idx)
    /\ gc' = [gc EXCEPT !.attempts = Append(@, gc.idx),
                        !.idx = @ + 1]
    /\ UNCHANGED <<storeVars, chunkVars, guardVars, chatVars, beVars, gmKey, gmScript, gs, syncVars, indexVars, startVars, addVars>>

\* after the loop: raise last_error or RuntimeError(...)
GcExhausted ==
    /\ gc.pc = "try" /\ gc.idx > NumModels
    /\ gc' = [gc EXCEPT !.pc = "raised", !.raised = RaisedAfterLoop(gc.last_error)]
    /\ UNCHANGED <<storeVars, chunkVars, guardVars, chatVars, beVars, gmKey, gmScript, gs, syncVars, indexVars, startVars, addVars>>

GcFinished == gc.pc \in {"returned", "raised"}

GemNext ==
    \/ GsNoKey
    \/ GsBegin
    \/ GsTryStatus
    \/ GsTryException
    \/ GsTryOpen
    \/ GsLineText
    \/ GsLineSkipped
    \/ GsStreamEnd
    \/ GsStreamRaise
    \/ GsExhausted
    \/ GcNoKey
    \/ GcBegin
    \/ GcTryError
    \/ GcTryText
    \/ GcTryEmpty
    \/ GcExhausted

GemSpecInit ==
    /\ GuardIdle
    /\ ChatIdle
    /\ BeIdle
    /\ GemInit
    /\ StoreIdle
    /\ ChunkIdle
    /\ SyncIdle
    /\ IndexIdle
    /\ StartIdle
    /\ AddIdle

SpecGemini == GemSpecInit /\ [][GemNext]_vars

StoreInit ==
    /\ GuardIdle
    /\ ChatIdle
    /\ BeIdle
    /\ GemIdle
    /\ StoreIdle
    /\ ChunkIdle
    /\ SyncIdle
    /\ IndexIdle
    /\ StartIdle
    /\ AddIdle

SpecStore == StoreInit /\ [][StoreNext]_vars

ChunkInit ==
    /\ GuardIdle
    /\ ChatIdle
    /\ BeIdle
    /\ GemIdle
    /\ StoreIdle
    /\ ChunkStart
    /\ SyncIdle
    /\ IndexIdle
    /\ StartIdle
    /\ AddIdle

SpecChunk == ChunkInit /\ [][ChunkNext]_vars

SyncInit ==
    /\ GuardIdle
    /\ ChatIdle
    /\ BeIdle
    /\ GemIdle
    /\ StoreIdle
    /\ ChunkIdle
    /\ SyncStart
    /\ IndexIdle
    /\ StartIdle
    /\ AddIdle

SpecSync == SyncInit /\ [][SyncNext]_vars

IndexInit ==
    /\ GuardIdle
    /\ ChatIdle
    /\ BeIdle
    /\ GemIdle
    /\ ChunkIdle
    /\ SyncIdle
    /\ IndexStart
    /\ StartIdle
    /\ AddIdle

SpecIndex == IndexInit /\ [][IndexNext]_vars

ReloadInit ==
    /\ GuardIdle
    /\ ChatIdle
    /\ BeIdle
    /\ GemIdle
    /\ ChunkIdle
    /\ SyncIdle
    /\ IndexStart
    /\ StartIdle
    /\ AddIdle

SpecReload == ReloadInit /\ [][ReloadNext]_vars

StartupInit ==
    /\ GuardIdle
    /\ ChatInit
    /\ req \in StartupRequests
    /\ BeIdle
    /\ GemIdle
    /\ StoreIdle
    /\ ChunkIdle
    /\ SyncIdle
    /\ IndexIdle
    /\ StartupStart
    /\ AddIdle

SpecStartup == StartupInit /\ [][StartupNext]_vars

----------------------------------------------------------------------------
(* Claims                                                                  *)

\* the number of words of s: the places where a run of non-whitespace starts
WordCount(s) ==
    Cardinality({i \in 1..Len(s) :
                    ~IsSpace(s[i]) /\ (i = 1 \/ IsSpace(s[i - 1]))})

\* s holds a vocabulary term, letter case ignored
HoldsTerm(s) ==
    \E kw \in BITS_KEYWORDS :
        \E i \in 1..(Len(s) - Len(kw) + 1) :
            \A j \in 1..Len(kw) : LowerChar(s[i + j - 1]) = kw[j]

\* the events of one type the stream has carried so far
CountType(type) ==
    Cardinality({i \in 1..Len(events) : events[i].type = type})

\* the response stream is over: its generator returned or raised
StreamEnded == pc \in {"closed", "aborted"}

\* the text the content fragments of the stream add up to
ResponseText ==
    Concat([i \in 1..Len(SelectSeq(events, LAMBDA e : e.type = "delta")) |->
                SelectSeq(events, LAMBDA e : e.type = "delta")[i].content])

\* the stream that answers a refusal, as far as it has been sent: the metadata
\* event with no sources, content fragments only, the sentinel last
RefusalShaped ==
    /\ events # <<>> => events[1] = MetaEvent(<<>>, None)
    /\ \A i \in 2..Len(events) :
          \/ events[i].type = "delta"
          \/ events[i] = DoneEvent /\ i = Len(events)
    /\ pc = "closed" => events # <<>> /\ events[Len(events)] = DoneEvent

\* the topic guard has decided on the request of the ai-model service
GuardDecided ==
    /\ service = "ai-model"
    /\ req.messages # <<>>
    /\ pc # "start"

\* C1: in every response stream, whichever branch runs, exactly one metadata
\* event is emitted, and it is emitted before any content fragment.
C1_OneMetadataBeforeContent ==
    /\ CountType("metadata") <= 1
    /\ \A i \in 1..Len(events) :
          events[i].type = "delta" =>
              \E j \in 1..(i - 1) : events[j].type = "metadata"
    /\ StreamEnded => CountType("metadata") = 1

\* C2: every response stream that is started ends with exactly one [DONE]
\* sentinel, emitted after all content fragments, also when an internal stage
\* fails.
C2_OneSentinelLast ==
    /\ CountType("done") <= 1
    /\ \A i \in 1..Len(events) : events[i].type = "done" => i = Len(events)
    /\ StreamEnded => CountType("done") = 1

\* C3: when the synthesizer fails after the metadata event has been sent,
\* exactly one error fragment is emitted after the content fragments already
\* sent, and the next event is the [DONE] sentinel.
C3_ErrorFragmentThenSentinel ==
    (synthFailed /\ StreamEnded) =>
        /\ CountType("error") = 1
        /\ Len(events) >= 3
        /\ events[1].type = "metadata"
        /\ events[Len(events) - 1].type = "error"
        /\ events[Len(events)] = DoneEvent

C5_GuardDecision ==
    gPc = "checked" =>
        gResult = (WordCount(gQuery) <= 6 \/ HoldsTerm(gQuery))

C5_Witness ==
    /\ gPc = "checked"
    /\ WordCount(gQuery) > 6
    /\ ~gResult

\* the request was refused: the out-of-scope stream answers it
ShortCircuited ==
    /\ retrievalCalls = 0
    /\ generationCalls = 0
    /\ pc \in {"oos_meta", "oos_words", "closed"}
    /\ RefusalShaped

\* C6 as stated: a query of six or more words that holds no domain keyword,
\* such as "what is the capital of France", short-circuits before retrieval,
\* its metadata event has no sources and its response equals the out-of-scope
\* message.
C6_SixWordsShortCircuit ==
    (/\ GuardDecided
     /\ \/ WordCount(UserMessage) >= 6 /\ ~HoldsTerm(UserMessage)
        \/ UserMessage = ExampleQuery) =>
        /\ ShortCircuited
        /\ pc = "closed" => ResponseText = OUT_OF_SCOPE_REPLY

\* C6, amended: a query of seven or more words that holds no vocabulary term
\* short-circuits before retrieval, its metadata event has no sources and its
\* content fragments add up to the out-of-scope message followed by one space;
\* a query of six words, such as "what is the capital of France" (which also
\* holds the terms "what" and "ta"), passes the guard and is not
\* short-circuited.
C6_SevenWordsShortCircuit ==
    GuardDecided =>
        /\ (WordCount(UserMessage) >= 7 /\ ~HoldsTerm(UserMessage)) =>
              /\ ShortCircuited
              /\ pc = "closed" => ResponseText = OUT_OF_SCOPE_REPLY \o <<" ">>
        /\ (WordCount(UserMessage) = 6 \/ UserMessage = ExampleQuery) =>
              /\ pc \notin {"oos_meta", "oos_words"}
              /\ req.use_rag => retrievalCalls = 1
              /\ pc = "closed" => generationCalls = 1

C6_Witness ==
    /\ GuardDecided
    /\ WordCount(UserMessage) = 7
    /\ ~HoldsTerm(UserMessage)
    /\ pc = "closed"
    /\ events[1] = MetaEvent(<<>>, None)

\* the attempts of one call went through the models in list order
InListOrder(attempts) == \A i \in 1..Len(attempts) : attempts[i] = i

\* the entry of model m answers with an error
EntryFails(m) == gmScript[m].open # "ok" \/ gmScript[m].ending = "raise"

\* what C7 says of one finished call
FirstSuccessOrLastError(call) ==
    /\ InListOrder(call.attempts)
    /\ call.pc = "returned" =>
          /\ call.raised = NoError
          /\ ~EntryFails(call.selected)
          /\ \A m \in 1..(call.selected - 1) : EntryFails(m)
          /\ Len(call.attempts) = call.selected
    /\ (gmKey /\ call.pc = "raised") =>
          /\ \A m \in 1..NumModels : EntryFails(m)
          /\ Len(call.attempts) = NumModels
          /\ call.raised.model = NumModels

\* C7: generation tries the models in list order, an error from one entry
\* makes it try the next, the first success ends the loop and no failure is
\* surfaced, and an error is raised only if every entry fails, and then it is
\* the error of the last-attempted entry; in streaming and synchronous mode.
C7_FirstSuccessOrLastError ==
    /\ FirstSuccessOrLastError(gs)
    /\ FirstSuccessOrLastError(gc)

\* C8: in streaming mode, once a model has accepted the request (its stream
\* was opened), no later model of the list is tried, even if that stream
\* yields no text fragment.
C8_OpenedStreamEndsLoop ==
    \A m \in gs.opened : Len(gs.attempts) <= m

\* the part of C8 chat_stream keeps: once the stream of a model has been
\* opened and read to its end without an error, the call returns and no later
\* model is tried, even if that stream yielded no text fragment; after a
\* stream that was opened and then breaks off the next model, if there is
\* one, is tried.
C8_CompletedStreamEndsLoop ==
    /\ InListOrder(gs.attempts)
    /\ \A m \in gs.ended :
          /\ gs.pc = "returned"
          /\ gs.selected = m
          /\ Len(gs.attempts) = m
    /\ GsFinished =>
          \A m \in gs.opened \ gs.ended :
              m < NumModels => Len(gs.attempts) > m

C8_Witness ==
    /\ gs.pc = "returned"
    /\ gs.selected = 1
    /\ gs.out = <<>>
    /\ gmScript[2].open = "ok"
    /\ GcFinished

\* C9: the synchronous and the streaming mode apply the same fallback logic:
\* for the same outcomes of the models both select the same model, and both
\* fail in the same cases with the same error.
C9_SameFallback ==
    (GsFinished /\ GcFinished) =>
        /\ gs.pc = gc.pc
        /\ gs.selected = gc.selected
        /\ gs.raised = gc.raised

\* C10: the vector and the structured strategy are issued together and both
\* have resolved before the fallback decision and the merge; the keyword
\* strategy is invoked exactly when both returned nothing, a failed strategy
\* counting as nothing.
C10_GatherThenFallback ==
    /\ (vec.state = "idle") <=> (sql.state = "idle")
    /\ pc = "be_gather" => kwd.state = "idle" /\ ctx.sources = <<>>
    /\ kwd.state # "idle" => pc = "be_analyst"
    /\ pc = "be_analyst" =>
          /\ vec.state = "done"
          /\ sql.state = "done"
          /\ (vec.failed => vec.result = <<>>) /\ (sql.failed => sql.result = <<>>)
          /\ (kwd.state = "done") <=> (vec.result = <<>> /\ sql.result = <<>>)
          /\ kwd.state = "idle" => ctx.sources = Merge(vec.result, sql.result)

C10_Witness ==
    /\ pc = "be_analyst"
    /\ kwd.state = "done"
    /\ vec.failed
    /\ sql.result = <<>>
    /\ ~sql.failed


\* the ids of a list of documents
IdsOf(docs) == {docs[i].id : i \in 1..Len(docs)}

\* the list search_all merges first: the keyword results stand in for the
\* vector results when the fallback ran
FirstResults == IF kwd.state = "done" THEN kwd.result ELSE vec.result

\* C11: the merged result holds each document id exactly once, in first-seen
\* order, all results of the vector strategy before those of the structured
\* strategy; of an id both strategies returned, the vector strategy's copy,
\* with its similarity, is the one kept.
C11_MergeFirstSeen ==
    pc = "be_analyst" =>
        /\ \A i, j \in 1..Len(ctx.sources) :
              i # j => ctx.sources[i].id # ctx.sources[j].id
        /\ IdsOf(ctx.sources) = IdsOf(FirstResults) \cup IdsOf(sql.result)
        /\ SubSeq(ctx.sources, 1, Len(FirstResults)) = FirstResults
        /\ SubSeq(ctx.sources, Len(FirstResults) + 1, Len(ctx.sources)) =
              SelectSeq(sql.result, LAMBDA d : d.id \notin IdsOf(FirstResults))

C11_Witness ==
    /\ pc = "be_analyst"
    /\ Len(vec.result) = 1
    /\ Len(sql.result) = 2
    /\ sql.result[1].id # vec.result[1].id
    /\ sql.result[2].id = vec.result[1].id
    /\ Len(ctx.sources) = 2

\* C12: a failure inside one retrieval strategy counts as an empty result of
\* that strategy and the Retriever still returns; the Retriever raises only
\* for a configuration error (missing database credentials), and raises it
\* before any strategy runs.
C12_StrategyFailureIsEmpty ==
    /\ vec.failed => vec.result = <<>>
    /\ sql.failed => sql.result = <<>>
    /\ kwd.failed => kwd.result = <<>>
    /\ (pc = "be_gather" /\ vec.state = "done" /\ sql.state = "done") =>
          ENABLED BeJoin
    /\ (pc = "aborted" /\ events = <<>>) =>
          /\ ~env.supabase
          /\ vec.state = "idle" /\ sql.state = "idle" /\ kwd.state = "idle"
    /\ (service = "backend" /\ ~env.supabase) =>
          /\ pc \in {"start", "rejected", "be_run", "aborted"}
          /\ vec.state = "idle" /\ sql.state = "idle" /\ kwd.state = "idle"

C12_Witness ==
    /\ pc = "be_analyst"
    /\ vec.failed
    /\ sql.failed
    /\ kwd.failed
    /\ ctx.sources = <<>>

\* C13: if the cross-check provider is unreachable or answers with an error,
\* the cross-check stage does not raise, the advisory notes are empty and the
\* pipeline goes on to synthesis.
C13_AnalystFailureSkipped ==
    analyst = "failed" =>
        /\ ctx.analyst_notes = <<>>
        /\ pc \in {"be_artifacts", "be_meta", "be_llm", "be_lines", "be_done",
                   "closed", "aborted"}
        /\ pc \in {"be_llm", "be_lines", "be_done", "closed", "aborted"} =>
              /\ events # <<>>
              /\ events[1].type = "metadata"
              /\ events[1].notes = None

C13_Witness ==
    /\ analyst = "failed"
    /\ pc = "closed"
    /\ CountType("delta") >= 1
    /\ ~synthFailed


\* the places of the index that hold the id
PlacesOf(docs, id) == {i \in 1..Len(docs) : docs[i].id = id}

\* the entries of the index under other ids, in their order
OthersOf(docs, id) == SelectSeq(docs, LAMBDA d : d.id # id)

\* C14: add with an empty embedding fails with a validation error and leaves
\* the index as it was; with an embedding it inserts the chunk, or replaces
\* the chunk stored under the same id, and changes no other entry.
C14_AddValidatesThenStores ==
    vsOp.name = "add" =>
        /\ vsOp.doc.embedding = <<>> => vsOp.raised /\ vsDocs = vsOp.before
        /\ vsOp.doc.embedding # <<>> =>
              /\ ~vsOp.raised
              /\ Cardinality(PlacesOf(vsDocs, vsOp.doc.id)) = 1
              /\ \A i \in PlacesOf(vsDocs, vsOp.doc.id) : vsDocs[i] = vsOp.doc
              /\ OthersOf(vsDocs, vsOp.doc.id) = OthersOf(vsOp.before, vsOp.doc.id)
              /\ Len(vsDocs) = Len(vsOp.before)
                    + (IF PlacesOf(vsOp.before, vsOp.doc.id) = {} THEN 1 ELSE 0)

C14_Witness ==
    /\ vsOp.name = "add"
    /\ ~vsOp.raised
    /\ Len(vsOp.before) = 2
    /\ \E i \in PlacesOf(vsOp.before, vsOp.doc.id) : vsOp.before[i] # vsOp.doc

\* a search that returned
Searched == vsOp.name = "search" /\ ~vsOp.raised

SimOf(doc) == _cosine_similarity(vsOp.query.embedding, doc.embedding).value

\* the stored chunks the last search has to consider
Qualifying ==
    {i \in 1..Len(vsDocs) :
        /\ vsOp.query.category # NoCategory => vsDocs[i].category = vsOp.query.category
        /\ SimOf(vsDocs[i]) >= vsOp.query.threshold}

\* the place of an id in the order of insertion
InsertedAt(id) == CHOOSE k \in 1..Len(vsInserted) : vsInserted[k] = id

\* chunk d ranks before chunk e: it is more similar, or as similar and
\* inserted earlier
RanksBefore(d, e) ==
    \/ SimOf(d) > SimOf(e)
    \/ SimOf(d) = SimOf(e) /\ InsertedAt(d.id) < InsertedAt(e.id)

\* C16: a search returns the limit most similar qualifying chunks in
\* descending order of similarity, chunks of equal similarity in the order in
\* which they were inserted into the index (an overwrite by id is no new
\* insertion, an add after a delete is one).
C16_TopRankedStable ==
    Searched =>
        /\ Len(vsOp.result) =
              IF vsOp.query.limit < Cardinality(Qualifying)
              THEN vsOp.query.limit ELSE Cardinality(Qualifying)
        /\ \A i \in 1..Len(vsOp.result) :
              /\ \E k \in Qualifying : vsDocs[k] = vsOp.result[i].document
              /\ vsOp.result[i].similarity = SimOf(vsOp.result[i].document)
        /\ \A i, j \in 1..Len(vsOp.result) :
              i < j => RanksBefore(vsOp.result[i].document, vsOp.result[j].document)
        /\ \A k \in Qualifying :
              (\A i \in 1..Len(vsOp.result) : vsOp.result[i].document # vsDocs[k]) =>
                  \A i \in 1..Len(vsOp.result) :
                      RanksBefore(vsOp.result[i].document, vsDocs[k])

C16_Witness ==
    /\ Searched
    /\ Len(vsOp.result) = 2
    /\ vsOp.result[1].similarity = vsOp.result[2].similarity
    /\ vsOp.result[1].document.id = "b"
    /\ vsOp.result[2].document.id = "a"
    /\ vsOp.before = vsDocs

\* C17: the threshold is inclusive: a chunk whose similarity equals the
\* threshold is eligible (it is returned when the limit leaves room for every
\* chunk), and a chunk whose similarity is below the threshold is never
\* returned.
C17_ThresholdInclusive ==
    Searched =>
        \A k \in 1..Len(vsDocs) :
            LET returned == \E i \in 1..Len(vsOp.result) :
                                vsOp.result[i].document = vsDocs[k]
                passes == vsOp.query.category # NoCategory =>
                              vsDocs[k].category = vsOp.query.category
            IN  /\ SimOf(vsDocs[k]) < vsOp.query.threshold => ~returned
                /\ (/\ SimOf(vsDocs[k]) = vsOp.query.threshold
                    /\ passes
                    /\ vsOp.query.limit >= Len(vsDocs)) => returned

C17_Witness ==
    /\ Searched
    /\ vsOp.query.threshold = 60
    /\ Len(vsOp.result) = 1
    /\ vsOp.result[1].similarity = 60
    /\ Len(vsDocs) = 2

ZeroNorm(v) == \A i \in 1..Len(v) : v[i] = 0

\* C19: the cosine similarity of a vector of norm zero and any vector of its
\* length is 0 and no error, so a search with a zero query vector, or over a
\* stored zero embedding, completes.
C19_ZeroNormIsZero ==
    vsOp.name = "search" =>
        /\ \A k \in 1..Len(vsDocs) :
              (/\ Len(vsDocs[k].embedding) = Len(vsOp.query.embedding)
               /\ ZeroNorm(vsDocs[k].embedding) \/ ZeroNorm(vsOp.query.embedding)) =>
                  _cosine_similarity(vsOp.query.embedding, vsDocs[k].embedding)
                      = Returns(0)
        /\ (\A k \in 1..Len(vsDocs) :
                Len(vsDocs[k].embedding) = Len(vsOp.query.embedding)) => ~vsOp.raised
        /\ (~vsOp.raised /\ ZeroNorm(vsOp.query.embedding)) =>
              \A i \in 1..Len(vsOp.result) : vsOp.result[i].similarity = 0

C19_Witness ==
    /\ Searched
    /\ vsOp.query.embedding = <<0, 0>>
    /\ Len(vsOp.result) = 2
    /\ vsOp.result[1].document.embedding = <<3, 4>>
    /\ vsOp.result[2].document.embedding = <<0, 0>>


RECURSIVE TotalLength(_)
\* the sum of the lengths of the chunks
TotalLength(docs) ==
    IF docs = <<>> THEN 0 ELSE Len(Head(docs).content) + TotalLength(Tail(docs))

\* C20: the chunker emits no empty chunk, and the lengths of the emitted
\* chunks sum to at least the length of the whitespace-normalized content.
C20_NoTextLost ==
    ckPc \in {"done", "again"} =>
        /\ \A i \in 1..Len(ckDocs) : ckDocs[i].content # <<>>
        /\ TotalLength(ckDocs) >= Len(Clean(ckContent))

\* the part of C20 the chunker keeps: no chunk is empty, and no chunk holds
\* more than the cleaned content
C20_NoEmptyChunk ==
    ckPc \in {"done", "again"} =>
        /\ \A i \in 1..Len(ckDocs) : ckDocs[i].content # <<>>
        /\ TotalLength(ckDocs) <= Len(Clean(ckContent))


\* process has returned
Chunked == ckPc \in {"done", "again"}

\* the sentences chunk_by_sentences packs: the matches, or the text itself
SentencesOf(text) ==
    IF FindSentences(text) = <<>> THEN <<text>> ELSE FindSentences(text)

C22_NoBoundaryOneChunk ==
    (/\ Chunked
     /\ Clean(ckContent) # <<>>
     /\ FindSentences(Clean(ckContent)) = <<>>) =>
        /\ Len(ckDocs) = 1
        /\ ckDocs[1].content = Clean(ckContent)

C22_Witness ==
    /\ ckPc = "done"
    /\ ckSize = SmallChunkSize
    /\ ckContent = <<"a", " ", "\n", "a", "a">>
    /\ Len(ckDocs) = 1
    /\ ckDocs[1].content = <<"a", " ", "a", "a">>

\* C23: a DocumentProcessor with chunk_size <= chunk_overlap is never
\* constructed, so that none chunks a document.
C23_SizeAboveOverlap ==
    ckPc \in {"built", "done", "again"} => ckSize > ckOverlap

\* chunk starts at place p of the text
OccursAt(chunk, text, p) ==
    /\ p + Len(chunk) - 1 <= Len(text)
    /\ \A m \in 1..Len(chunk) : text[p + m - 1] = chunk[m]

RECURSIVE InTextOrder(_, _, _, _)
\* the chunks docs[i..] occur in the text one after the other, from place p on
InTextOrder(docs, i, text, p) ==
    IF i > Len(docs) THEN TRUE
    ELSE LET places == {q \in p..Len(text) : OccursAt(docs[i].content, text, q)}
         IN  /\ places # {}
             /\ InTextOrder(docs, i + 1, text,
                            (CHOOSE q \in places : \A r \in places : q <= r)
                                + Len(docs[i].content))

\* C24: the k-th chunk of a document of n chunks (k from 0, in text order)
\* carries chunk_index k and total_chunks n, its id is made of the title and
\* k, the ids of the chunks of one document differ, and processing the
\* document again gives the same ids.
C24_ChunkStamps ==
    /\ Chunked =>
          /\ \A i \in 1..Len(ckDocs) :
                /\ ckDocs[i].metadata["chunk_index"] = i - 1
                /\ ckDocs[i].metadata["total_chunks"] = Len(ckDocs)
                /\ ckDocs[i].id = ChunkId(TitleOf(ckMetadata), i - 1)
          /\ \A i, j \in 1..Len(ckDocs) : i # j => ckDocs[i].id # ckDocs[j].id
          /\ InTextOrder(ckDocs, 1, Clean(ckContent), 1)
    /\ ckPc = "again" =>
          /\ Len(ckDocs) = Len(ckPrev)
          /\ \A i \in 1..Len(ckDocs) : ckDocs[i].id = ckPrev[i].id

C24_Witness ==
    /\ ckPc = "again"
    /\ ckContent = ManyContent
    /\ ckSize = SmallChunkSize
    /\ Len(ckDocs) = ManyCount + 1
    /\ ckDocs[ManyCount + 1].metadata["chunk_index"] = ManyCount
    /\ ckDocs[1].id = <<"T","-","c","h","u","n","k","-","0">>


\* the last message of the request
LastMessage == req.messages[Len(req.messages)]

\* C26: a chat request is accepted only if its last message has role "user";
\* a request without messages, or whose last message is not a user message,
\* is answered with a client error and neither retrieval nor generation is
\* invoked for it.
C26_LastMessageUser ==
    pc # "idle" =>
        /\ httpStatus = 200 => req.messages # <<>> /\ LastMessage.role = "user"
        /\ (req.messages = <<>> \/ LastMessage.role # "user") =>
              /\ httpStatus \in {0, 400}
              /\ pc \in {"start", "rejected"}
              /\ retrievalCalls = 0
              /\ generationCalls = 0

\* the role names of the generation provider: "user" and "model"
NativeRole(role) == IF role = "assistant" THEN "model" ELSE role

\* the place of the newest user turn in the conversation
NewestUserAt ==
    CHOOSE i \in 1..Len(req.messages) :
        /\ req.messages[i].role = "user"
        /\ \A j \in (i + 1)..Len(req.messages) : req.messages[j].role # "user"

\* the conversation without its newest user turn
EarlierTurns ==
    SubSeq(req.messages, 1, NewestUserAt - 1)
    \o SubSeq(req.messages, NewestUserAt + 1, Len(req.messages))

\* C29: the messages given to the generation provider are all turns except
\* the newest user turn, in their order and with the provider's role names,
\* then the composed user turn with the query, the context and the notes.
C29_HistoryThenComposedTurn ==
    (service = "backend" /\ generationCalls >= 1) =>
        /\ Len(FinalizerMessages) = Len(EarlierTurns) + 1
        /\ \A i \in 1..Len(EarlierTurns) :
              /\ FinalizerMessages[i].role = NativeRole(EarlierTurns[i].role)
              /\ FinalizerMessages[i].text = EarlierTurns[i].content
        /\ FinalizerMessages[Len(FinalizerMessages)] =
              [role |-> "user",
               text |-> [query |-> Strip(req.messages[NewestUserAt].content),
                         context |-> IF ctx.raw_context # <<>> THEN ctx.raw_context
                                     ELSE NoneRetrieved,
                         notes |-> ctx.analyst_notes]]

\* the part of C29 the synthesizer keeps when the newest turn is the user's:
\* the earlier turns in their order, then the composed turn
C29_HistoryInOrder ==
    (service = "backend" /\ generationCalls >= 1 /\ LastMessage.role = "user") =>
        /\ Len(FinalizerMessages) = Len(EarlierTurns) + 1
        /\ \A i \in 1..Len(EarlierTurns) :
              FinalizerMessages[i].text = EarlierTurns[i].content
        /\ FinalizerMessages[Len(FinalizerMessages)].text.query =
              Strip(req.messages[NewestUserAt].content)


\* C27: in synchronous mode a failure of the retrieval or of the generation
\* provider does not abort the exchange: a request with messages is answered
\* 200 with a response object {response, sources, metadata}.
C27_SyncAlwaysAnswers ==
    (syReq.messages # <<>> /\ syPc \notin {"start", "retrieving", "generating"}) =>
        /\ syPc = "responded"
        /\ syStatus = 200
        /\ Len(syBody) = 1
        /\ DOMAIN syBody[1] = {"response", "sources", "metadata"}

\* the part of C27 chat_sync keeps: a failure of the retrieval is caught, and
\* the exchange goes on to the generation without sources
C27_RetrievalFailureCaught ==
    /\ syPc = "responded" =>
          /\ syStatus = 200
          /\ Len(syBody) = 1
          /\ DOMAIN syBody[1] = {"response", "sources", "metadata"}
    /\ syPc = "aborted" => syStatus = 500 /\ syBody = <<>>


\* the marker of an empty retrieval
NoneRetrievedMarker ==
    <<"[","n","o","n","e"," ","r","e","t","r","i","e","v","e","d","]">>

\* a query whose search ran after initialize([]) returned
AfterEmptyLoad ==
    /\ ixPc = "returned"
    /\ ixDocuments = <<>>
    /\ qPc = "answered"
    /\ qSeen = vsDocs

\* C25: after initialize([]) the index is empty, a query has no sources, and
\* the context handed on for the generation is the marker "[none retrieved]".
C25_EmptyCorpusMarker ==
    AfterEmptyLoad =>
        /\ vsDocs = <<>>
        /\ qSources = <<>>
        /\ ContextText(qSources) = NoneRetrievedMarker

\* the part of C25 the service keeps: the index is empty, the query has no
\* sources, and the system prompt is SYSTEM_PROMPT without any context
C25_EmptyCorpusNoSources ==
    AfterEmptyLoad =>
        /\ vsDocs = <<>>
        /\ qSources = <<>>
        /\ ContextText(qSources) = <<>>
        /\ qPrompt = "base"

\* the chunk of a log entry as initialize handed it to the index
LoggedDocument(entry) ==
    Document(ixChunks[entry.at.doc][entry.at.chunk], entry.embedding)

\* C28: a query beside a reload never fails because of the index: its search
\* does not raise, it sees the index empty or partly filled (what was there
\* before the reload, or chunks the reload has added), it returns only
\* chunks of the index it saw, and nothing from an empty index.
C28_QueryDuringReload ==
    /\ qPc # "search_failed"
    /\ qPc = "answered" =>
          /\ \A k \in 1..Len(qSeen) :
                \/ qSeen[k] = OldDocument
                \/ \E e \in 1..Len(ixLog) :
                      ixLog[e].added /\ LoggedDocument(ixLog[e]) = qSeen[k]
          /\ \A i \in 1..Len(qSources) :
                \E k \in 1..Len(qSeen) :
                    /\ qSeen[k].id = qSources[i].id
                    /\ qSeen[k].content = qSources[i].content
          /\ qSeen = <<>> => qSources = <<>>

C28_Witness ==
    /\ qPc = "answered"
    /\ ixPc = "embedding"
    /\ Len(ixLog) = 1
    /\ Len(qSeen) = 1
    /\ qSeen[1] # OldDocument
    /\ Len(qSources) = 1
    /\ Len(ixChunks) = 2

\* every chunk of every document
AllChunks ==
    UNION { {[doc |-> d, chunk |-> c] : c \in 1..Len(ixChunks[d])} :
                d \in 1..Len(ixChunks) }

\* C30: a chunk whose embedding call fails is skipped and every other chunk
\* is still handled, initialize returns, and every chunk whose embedding
\* succeeded is in the index when it returns.
C30_SkipAndContinue ==
    ixPc = "returned" =>
        /\ {ixLog[e].at : e \in 1..Len(ixLog)} = AllChunks
        /\ \A e \in 1..Len(ixLog) :
              (ixLog[e].embedded /\ ixLog[e].embedding # <<>>) =>
                  \E k \in 1..Len(vsDocs) : vsDocs[k] = LoggedDocument(ixLog[e])

\* the part of C30 initialize keeps: every chunk is handled once whatever
\* became of the others, and the index holds, under each id, the last chunk
\* of that id whose embedding succeeded, and nothing else
C30_EveryChunkHandled ==
    ixPc = "returned" =>
        /\ {ixLog[e].at : e \in 1..Len(ixLog)} = AllChunks
        /\ Len(ixLog) = Cardinality(AllChunks)
        /\ \A e \in 1..Len(ixLog) :
              ixLog[e].added <=> (ixLog[e].embedded /\ ixLog[e].embedding # <<>>)
        /\ \A e \in 1..Len(ixLog) :
              ixLog[e].added =>
                  \E k \in 1..Len(vsDocs) :
                      /\ vsDocs[k].id = LoggedDocument(ixLog[e]).id
                      /\ (\A f \in (e + 1)..Len(ixLog) :
                              ixLog[f].added =>
                                  LoggedDocument(ixLog[f]).id # vsDocs[k].id)
                          => vsDocs[k] = LoggedDocument(ixLog[e])
        /\ \A k \in 1..Len(vsDocs) :
              \E e \in 1..Len(ixLog) :
                  ixLog[e].added /\ LoggedDocument(ixLog[e]) = vsDocs[k]

\* an id the index holds
Holds(docs, doc_id) == \E i \in 1..Len(docs) : docs[i].id = doc_id

\* C32: after any sequence of add, add_many, delete and clear every stored
\* chunk has a non-empty embedding, the index holds one chunk per id at most
\* and its size is the number of ids stored; delete of a present id returns
\* true and takes one chunk away, delete of an absent id returns false and
\* changes nothing, clear leaves size 0.
C32_StoreLifecycle ==
    /\ \A k \in 1..Len(vsDocs) : vsDocs[k].embedding # <<>>
    /\ \A j, k \in 1..Len(vsDocs) : vsDocs[j].id = vsDocs[k].id => j = k
    /\ Len(vsDocs) = Cardinality({vsDocs[k].id : k \in 1..Len(vsDocs)})
    /\ vsOp.name = "delete" =>
          IF Holds(vsOp.before, vsOp.doc)
          THEN /\ vsOp.result = TRUE
               /\ Len(vsDocs) = Len(vsOp.before) - 1
               /\ ~Holds(vsDocs, vsOp.doc)
          ELSE /\ vsOp.result = FALSE
               /\ vsDocs = vsOp.before
    /\ vsOp.name = "clear" => Len(vsDocs) = 0

C32_Witness ==
    /\ vsOp.name = "delete"
    /\ vsOp.result = TRUE
    /\ Len(vsOp.before) = 2
    /\ Len(vsDocs) = 1

\* C34: add takes a chunk whatever the length of its embedding and of the
\* embeddings stored; a search raises for the whole search when the length
\* of the query vector differs from the embedding of a stored chunk that
\* passes the filter, also when other chunks have the length of the query,
\* and a chunk the filter rejects is not compared.
C34_LengthMismatchRaises ==
    /\ (vsOp.name = "add" /\ vsOp.doc.embedding # <<>>) =>
          /\ ~vsOp.raised
          /\ \E k \in 1..Len(vsDocs) : vsDocs[k] = vsOp.doc
    /\ vsOp.name = "search" =>
          /\ vsOp.raised <=>
                \E k \in 1..Len(vsOp.before) :
                    /\ ~FilteredOut(vsOp.before[k], vsOp.query.category)
                    /\ Len(vsOp.before[k].embedding) # Len(vsOp.query.embedding)
          /\ vsOp.raised => vsOp.result = <<>>

C34_Witness ==
    /\ vsOp.name = "search"
    /\ vsOp.raised
    /\ \E j, k \in 1..Len(vsOp.before) :
          /\ ~FilteredOut(vsOp.before[j], vsOp.query.category)
          /\ Len(vsOp.before[j].embedding) = Len(vsOp.query.embedding)
          /\ ~FilteredOut(vsOp.before[k], vsOp.query.category)
          /\ Len(vsOp.before[k].embedding) # Len(vsOp.query.embedding)

\* sentences[from..to] joined
Joined(sentences, from, to) == Concat(SubSeq(sentences, from, to))

\* the sentences cut after the places of ends make the chunks, in order: a
\* chunk is its sentences joined and stripped, the sentence behind a cut
\* would have made the chunk before it longer than size, and no sentence
\* inside a chunk did
PackedAt(sentences, chunks, size, ends) ==
    LET n == Len(sentences)
        first(j) == IF j = 1 THEN 1
                    ELSE 1 + CHOOSE e \in ends :
                                 Cardinality({x \in ends : x < e}) = j - 2
        last(j) == IF j = Len(chunks) THEN n
                   ELSE CHOOSE e \in ends :
                            Cardinality({x \in ends : x < e}) = j - 1
    IN  \A j \in 1..Len(chunks) :
            /\ chunks[j] = Strip(Joined(sentences, first(j), last(j)))
            /\ j < Len(chunks) =>
                  Len(Joined(sentences, first(j), last(j)))
                      + Len(sentences[last(j) + 1]) > size
            /\ \A i \in (first(j) + 1)..last(j) :
                  Len(Joined(sentences, first(j), i)) <= size

\* chunks are sentences packed greedily, every sentence in one chunk
GreedyPacked(sentences, chunks, size) ==
    IF sentences = <<>> THEN chunks = <<>>
    ELSE /\ chunks # <<>>
         /\ Len(chunks) <= Len(sentences)
         /\ \E ends \in SUBSET (1..(Len(sentences) - 1)) :
                /\ Cardinality(ends) = Len(chunks) - 1
                /\ PackedAt(sentences, chunks, size, ends)

\* what follows the last terminator of a text
TailOf(text) ==
    LET n == Len(text)
        terms == {i \in 1..n : IsTerminator(text[i])}
        lastTerm == IF terms = {} THEN 0
                    ELSE CHOOSE i \in terms : \A j \in terms : j <= i
    IN  SubSeq(text, lastTerm + 1, n)

\* the sentence-like units of a text, cut at its punctuation: the units that
\* end in terminators and the unit after the last terminator; a text
\* without a unit that ends in a terminator is one unit
UnitsOf(text) ==
    IF text = <<>> THEN <<>>
    ELSE IF FindSentences(text) = <<>> THEN <<text>>
    ELSE IF Strip(TailOf(text)) = <<>> THEN FindSentences(text)
    ELSE Append(FindSentences(text), TailOf(text))

\* the sentences chunk_by_sentences finds in a text that is not empty
MatchesOf(text) == IF text = <<>> THEN <<>> ELSE SentencesOf(text)

\* the contents of the chunks process returned
ChunkContents == [i \in 1..Len(ckDocs) |-> ckDocs[i].content]

\* C33: the sentences of the normalized text are packed greedily and without
\* overlap: every sentence is in exactly one chunk, in order, a chunk is
\* closed exactly when the next sentence would take it beyond chunk_size, and
\* a chunk of two sentences or more is not longer than chunk_size.
C33_GreedyPacking ==
    Chunked => GreedyPacked(UnitsOf(Clean(ckContent)), ChunkContents, ckSize)

\* the part of C33 chunk_by_sentences keeps: the sentences it finds, those
\* that end in a terminator, are packed greedily, each in exactly one chunk
C33_GreedyOverMatches ==
    Chunked => GreedyPacked(MatchesOf(Clean(ckContent)), ChunkContents, ckSize)

\* C35: the text fragments one streaming call yields come from a single
\* model: once a fragment of a model's stream has been yielded no later
\* model of the list is tried, so that no other model's output follows a
\* partial output.
C35_FragmentsOfOneModel ==
    /\ \A i, j \in 1..Len(gs.out) : gs.out[i] = gs.out[j]
    /\ \A i \in 1..Len(gs.out) : Len(gs.attempts) <= gs.out[i]

\* the part of C35 chat_stream keeps: the fragments come in the order of the
\* list, and a model whose stream was read to its end is the last one tried
C35_FragmentsInListOrder ==
    /\ \A i, j \in 1..Len(gs.out) : i <= j => gs.out[i] <= gs.out[j]
    /\ \A m \in gs.ended : \A i \in 1..Len(gs.out) : gs.out[i] <= m

\* C37: the count initialize returns is the number of chunks in the index
\* when it returns, whatever the documents, those that share a title
\* included, no other writer running.
C37_CountIsIndexSize ==
    ixPc = "returned" => ixTotal = Len(vsDocs)

\* the part of C37 initialize keeps: the count is the number of successful
\* adds, and the index holds one chunk for every id among them
C37_CountIsAdds ==
    ixPc = "returned" =>
        /\ ixTotal = Cardinality({e \in 1..Len(ixLog) : ixLog[e].added})
        /\ Len(vsDocs) =
              Cardinality({LoggedDocument(ixLog[e]).id :
                              e \in {f \in 1..Len(ixLog) : ixLog[f].added}})

\* AnalystAgent.run is at work in this step
AnalystStep == service = "backend" /\ pc = "be_analyst" /\ pc' # pc

\* C38: the cross-check stage changes only the advisory notes of the
\* AgentContext: query, sources, rendered context and history are after it
\* what they were before, on every path; with an empty rendered context it
\* makes no provider call and sets the fixed note, which is not empty.
C38_AnalystOnlyNotes ==
    [][AnalystStep =>
          /\ ctx'.query = ctx.query
          /\ ctx'.sources = ctx.sources
          /\ ctx'.raw_context = ctx.raw_context
          /\ ctx'.history = ctx.history
          /\ ctx.raw_context = <<>> =>
                /\ analyst' = "skipped"
                /\ generationCalls' = generationCalls
                /\ ctx'.analyst_notes = NoContextNote
                /\ NoContextNote # <<>>
          /\ ctx.raw_context # <<>> => analyst' \in {"replied", "failed"}]_vars

C38_Witness ==
    /\ service = "backend"
    /\ pc = "be_artifacts"
    /\ analyst = "replied"
    /\ ctx.analyst_notes # <<>>
    /\ ctx.sources # <<>>
    /\ ctx.history # <<>>

\* FinalizerAgent.stream is at work in this step
FinalizerStep ==
    service = "backend" /\ pc \in {"be_llm", "be_lines"} /\ vars' # vars

Warnings == {DeltaEvent(WarnNoKey), DeltaEvent(WarnStatus), DeltaEvent(WarnError)}

\* what a step of the stream does when it does not raise: without an API
\* key one warning fragment and no provider call; an error of the generation
\* becomes one warning fragment, the last of the stream
FinalizerContained ==
    /\ pc' # "aborted"
    /\ (pc = "be_llm" /\ ~env.gemini) =>
          /\ events' = Append(events, DeltaEvent(WarnNoKey))
          /\ generationCalls' = generationCalls
          /\ pc' = "be_done"
    /\ (synthFailed' /\ ~synthFailed) =>
          /\ \E w \in {DeltaEvent(WarnStatus), DeltaEvent(WarnError)} :
                events' = Append(events, w)
          /\ pc' = "be_done"
    /\ (events' # events /\ events'[Len(events')] \in Warnings) => pc' = "be_done"

\* C39: the synthesizer stream never raises to its consumer: without an API
\* key it yields exactly one warning fragment and makes no provider call, and
\* an HTTP-status or other error during the generation becomes exactly one
\* trailing warning fragment, after which the stream ends.
C39_FinalizerNeverRaises ==
    [][FinalizerStep => FinalizerContained]_vars

\* the part of C39 the stream keeps: it does not raise when every message of
\* the history before the last has a content
C39_ContainedWithContents ==
    [][(FinalizerStep /\ \A i \in 1..Len(HistoryButLast) : HistoryButLast[i].has_content)
          => FinalizerContained]_vars

\* add_document returns in this step
AddReturns == adPc # "returned" /\ adPc' = "returned"

\* every chunk of the document, with the embedding add_document was given
\* for it, is in the index after the step
AllChunksIndexed ==
    \A k \in 1..Len(adChunks') :
        \E j \in 1..Len(vsDocs') : vsDocs'[j] = Document(adChunks'[k], adEmb'[k])

\* C36: when a reload runs between the awaits of a call of add_document and
\* add_document returns, every chunk of its document is in the index: no
\* document is left partly indexed.
C36_AddCompleteBesideReload ==
    [][AddReturns => AllChunksIndexed]_vars

\* the part of C36 add_document keeps: without a reload every chunk of the
\* document is in the index when it returns
C36_AddCompleteAlone ==
    [][(AddReturns /\ ixPc' = "idle") => AllChunksIndexed]_vars

\* C31: when the provider is unreachable at startup the startup still
\* completes, with an empty index; a chat request that follows is answered
\* with a stream that ends in the sentinel; and the health endpoint reports
\* "degraded" exactly when the provider is not connected.
C31_DegradedStartup ==
    /\ stPc # "crashed"
    /\ (StartupComplete /\ ~stHealthy) => vsDocs = <<>>
    /\ pc # "start" => StartupComplete
    /\ pc # "aborted"
    /\ pc = "closed" =>
          /\ httpStatus \in {0, 200}
          /\ events # <<>>
          /\ events[Len(events)] = DoneEvent
          /\ CountType("done") = 1
    /\ hPc = "responded" =>
          /\ Len(hResp) = 1
          /\ hResp[1].ollama_connected = hOk
          /\ hResp[1].status \in {"healthy", "degraded"}
          /\ hResp[1].status = "degraded" <=> ~hOk
          /\ hResp[1].rag_documents = Len(vsDocs)

C31_Witness ==
    /\ stPc = "skipped"
    /\ vsDocs = <<>>
    /\ pc = "closed"
    /\ synthFailed
    /\ hPc = "responded"
    /\ hResp[1].status = "degraded"

====
